---- MODULE Spec2Model ----
(***************************************************************************)
(* Receipt recognition pipeline of split-bill-app.                         *)
(*                                                                         *)
(* Money is held in integer cents (every line total is parsed from a       *)
(* token with exactly two decimals), confidences in hundredths (0.8 = 80). *)
(* A unit price may be a quotient lineTotal / quantity, so it is kept as   *)
(* the fraction num/den of cents; den = 0 stands for null.  Averages are   *)
(* kept as sum and count and compared by cross-multiplication.             *)
(*                                                                         *)
(* An OCR line is held tokenised, as the regular expressions of the        *)
(* parsers see it: the leading "<n>x " quantity prefix, the item name as   *)
(* extractCanonicalName returns it, and the money tokens left to right.    *)
(***************************************************************************)
EXTENDS Integers, Sequences, FiniteSets, TLC

VARIABLES
    \* ---- parsing pipelines (scanReceipt steps 3-5, parseReceipt, parseReceiptText)
    pipeline,       \* which pipeline parses the text
    lines,          \* the tokenised OCR lines that are item candidates
    receiptTotal,   \* the total extracted from a "total" line, 0 = undefined
    ocrConfidence,  \* the engine confidence handed to parseReceipt, hundredths
    phase,          \* "input" | "sanity" | "done" | "threw"
    items,          \* the items array of the running parse
    context,        \* the ReceiptContext built once before the sanity loop
    sanityIdx,      \* loop index i of the sanity loop (1-based)
    \* ---- OCR engines (client performMultiPassOCR, server runReceiptOCR)
    engine,         \* "none" | "client" | "server"
    ocrPc,          \* "idle" | "awaiting" (at the Promise.race) | "returned" | "threw"
    numPasses,      \* length of the list the loop iterates
    passIdx,        \* the pass the loop is at (1-based)
    recognition,    \* per pass, the Tesseract job: "notStarted" | "running" | "resolved" | "rejected"
    outcome,        \* per pass, how its race settled: "none" | "ok" | "failed" | "timeout"
    ocrResults,     \* client: the results array
    bestResult,     \* server: bestResult
    ocrError,       \* the error the engine threw
    \* ---- pipeline entry points (client scanReceipt, server scanReceipt,
    \*      processReceiptUpload)
    entry,          \* "none" | "clientScanReceipt" | "serverScanReceipt" | "processReceiptUpload"
    pipeStage,      \* the await the entry point is at, or "returned" | "threw"
    pipeFailed,     \* a stage failed and the entry point gave up on a parsed receipt
    pipeResult,     \* what the entry point returned
    pipeError,      \* what the entry point threw
    pipeScore,      \* score of the OCR result the client selected, -1 when none
    \* ---- ReceiptScanner component (processFile, handleCancel, reset)
    scan,           \* per processFile call, the await it is at: "idle" | "health" | "upload" | "clientOcr" | "done"
    controllerRef,  \* abortControllerRef.current: 0 = null, i = the controller call i created
    aborted,        \* per call, whether the controller it created is aborted
    uploadSignal,   \* per call, options.signal given to uploadReceiptImage: 0 = undefined
    uiStage,        \* stage: "capture" | "processing" | "review"
    shownResult,    \* result / scanResult: 0 = null, i = the result call i published
    scanError,      \* error is set
    apiCheckFailed, \* apiCheckFailed
    selectedFile,   \* selectedFile is set
    canceled,       \* the calls that were in progress when the user pressed Cancel
    afterCancel,    \* what canceled calls did after the Cancel: <<call, what>>
    \* ---- POST /api/receipts/upload
    reqPc,          \* per request: "none" | "racing" (at the Promise.race) | "responded"
    processing,     \* per request, processingPromise: "none" | "pending" | "resolved" | "rejected"
    processingError,\* per request, what processingPromise rejected with
    timer,          \* per request, the MAX_PROCESSING_TIME timer: "none" | "armed" | "fired"
    raceWinner,     \* per request, what settled the race: "none" | "processing" | "timer"
    responses,      \* per request, the responses sent, in order
    unhandled,      \* requests with a promise that rejected with no handler attached
    \* ---- one call of a pure function
    callIn,         \* its argument
    callFn,         \* the function called: "none" or its name
    callOut         \* what it returned

parseVars == <<pipeline, lines, receiptTotal, ocrConfidence, phase, items, context, sanityIdx>>

ocrVars == <<engine, ocrPc, numPasses, passIdx, recognition, outcome, ocrResults,
             bestResult, ocrError>>

pipeVars == <<entry, pipeStage, pipeFailed, pipeResult, pipeError, pipeScore>>

scannerVars == <<scan, controllerRef, aborted, uploadSignal, uiStage, shownResult,
                 scanError, apiCheckFailed, selectedFile, canceled, afterCancel>>

uploadVars == <<reqPc, processing, processingError, timer, raceWinner, responses,
                unhandled>>

callVars == <<callIn, callFn, callOut>>

vars == <<parseVars, ocrVars, pipeVars, scannerVars, uploadVars, callVars>>

notParseVars == <<ocrVars, pipeVars, scannerVars, uploadVars, callVars>>

notOcrVars == <<parseVars, pipeVars, scannerVars, uploadVars, callVars>>

notPipeVars == <<parseVars, scannerVars, uploadVars, callVars>>

notScannerVars == <<parseVars, ocrVars, pipeVars, uploadVars, callVars>>

notUploadVars == <<parseVars, ocrVars, pipeVars, scannerVars, callVars>>

notCallVars == <<parseVars, ocrVars, pipeVars, scannerVars, uploadVars>>

(***************************************************************************)
(* Bounds                                                                  *)
(***************************************************************************)
MaxLines == 3

\* preprocessing variants handed to the client engine
MaxVariants == 3

\* processFile calls of one scanner
MaxScans == 2

\* upload requests in flight
MaxRequests == 2

(***************************************************************************)
(* Arithmetic helpers                                                      *)
(***************************************************************************)
Abs(x) == IF x < 0 THEN -x ELSE x

Min2(a, b) == IF a < b THEN a ELSE b

Max2(a, b) == IF a > b THEN a ELSE b

RECURSIVE SumTotals(_)
SumTotals(s) == IF s = <<>> THEN 0 ELSE Head(s).lineTotal + SumTotals(Tail(s))

RECURSIVE MaxTotal(_)
MaxTotal(s) == IF s = <<>> THEN 0 ELSE Max2(Head(s).lineTotal, MaxTotal(Tail(s)))

\* [...].sort((a, b) => a - b)[Math.floor(n / 2)]: the element with exactly
\* floor(n/2) elements before it in sorted order.
MedianTotal(s) ==
    LET k == Len(s) \div 2
        below(v) == Cardinality({i \in 1..Len(s) : s[i].lineTotal < v})
        upto(v)  == Cardinality({i \in 1..Len(s) : s[i].lineTotal <= v})
    IN  CHOOSE v \in {s[i].lineTotal : i \in 1..Len(s)} : below(v) <= k /\ k < upto(v)

RECURSIVE NumDigits(_)
NumDigits(n) == IF n < 10 THEN 1 ELSE 1 + NumDigits(n \div 10)

RECURSIVE Pow10(_)
Pow10(k) == IF k = 0 THEN 1 ELSE 10 * Pow10(k - 1)

\* parseFloat(value.toFixed(2).substring(1)) for value >= 1.00, in cents
WithoutFirstDigit(c) == c % Pow10(NumDigits(c) - 1)

\* unit prices: num/den cents, den = 0 is null
NullPrice == [num |-> 0, den |-> 0]

Cents(c) == [num |-> c, den |-> 1]

Quotient(total, qty) == [num |-> total, den |-> qty]

IsNull(u) == u.den = 0

\* Number.prototype.toFixed(2) of a unit price, in cents
ToFixed2(u) == (2 * u.num + u.den) \div (2 * u.den)

\* The amounts are IEEE-754 doubles.  A difference of exactly two cents is
\* not the double 0.02: for these <<quantity, unitPrice, lineTotal>> (in
\* cents) Math.abs(lineTotal - quantity * unitPrice) is 0.020000000000000018,
\* above the tolerance; for the other two-token lines used here it is
\* 0.019999999999999574, below it.
RoundsAboveTolerance == {<<2, 200, 398>>}

\* Math.abs(lineTotal - quantity * unitPrice) > tol (tol in cents)
MismatchOver(lineTotal, quantity, u, tol) ==
    IF u.den = 1 /\ Abs(lineTotal - quantity * u.num) = tol
    THEN <<quantity, u.num, lineTotal>> \in RoundsAboveTolerance
    ELSE Abs(lineTotal * u.den - quantity * u.num) > tol * u.den

(***************************************************************************)
(* Tokenised OCR lines                                                     *)
(***************************************************************************)
Line(hasQty, qty, name, prices) ==
    [hasQty |-> hasQty, qty |-> qty, name |-> name, prices |-> prices]

OcrLines ==
    { Line(FALSE, 1, "Burger", <<2995>>),           \* "Burger 29.95"
      Line(TRUE, 2, "Coffee", <<350, 700>>),        \* "2x Coffee 3.50 7.00"
      Line(TRUE, 3, "Soda", <<200, 500>>),          \* "3x Soda 2.00 5.00"
      Line(FALSE, 1, "Widget", <<52995>>),          \* "Widget 529.95"
      Line(TRUE, 12, "Widget", <<52995>>),          \* "12x Widget 529.95"
      Line(TRUE, 12, "Widget", <<1200>>),           \* "12x Widget 12.00"
      Line(TRUE, 2, "Chips", <<95, 190>>),          \* "2x Chips 0.95 1.90"
      Line(FALSE, 1, "Widget 1", <<152995>>),       \* "Widget 1529.95"
      Line(FALSE, 1, "Tea", <<1234>>),              \* "Tea 12.34"
      Line(TRUE, 0, "Water", <<150>>),              \* "0x Water 1.50"
      Line(FALSE, 1, "X", <<500>>) }                \* "X 5.00"

ReceiptTotals == {0, 3000}

OcrConfidences == {50, 100}

NameLength(name) ==
    CASE name = "X" -> 1
      [] name = "Tea" -> 3
      [] name = "Soda" -> 4
      [] name \in {"Chips", "Water"} -> 5
      [] name = "Widget 1" -> 8
      [] OTHER -> 6

\* foodKeywords.some(keyword => itemName.toLowerCase().includes(keyword))
IsFoodItem(name) == name \in {"Burger", "Coffee", "Chips"}

\* server nameNoisePatterns: /\s+[a-zA-Z]{1,2}\s*$/, /[.\-_]{2,}$/, /\s+\d{1,2}\s*$/
HasNameNoise(name) == name = "Widget 1"

(***************************************************************************)
(* Review reasons and items                                                *)
(***************************************************************************)
Reason(code) == [code |-> code, from |-> 0, to |-> 0]

NoMetadata == [originalValue |-> 0, correctedValue |-> 0, correctionType |-> "absent"]

NoItem == [kind |-> "null"]

HasReason(item, code) == \E i \in 1..Len(item.reviewReasons) : item.reviewReasons[i].code = code

(***************************************************************************)
(* Line reconstruction (server)                                            *)
(***************************************************************************)
\* /\b(\d{1,3}\.\d{2})\b/g: a token of four or more integer digits is no match
ReconstructPrices(line) == SelectSeq(line.prices, LAMBDA p : p < 100000)

ReconstructReceiptLine(line) ==
    LET quantity  == IF line.hasQty THEN line.qty ELSE 1
        highQty   == line.hasQty /\ quantity > 10
        prices    == ReconstructPrices(line)
        n         == Len(prices)
        unitPrice == IF quantity > 1
                     THEN (IF n = 1 THEN Quotient(prices[1], quantity) ELSE Cents(prices[1]))
                     ELSE NullPrice
        lineTotal == prices[n]
        mismatch  == n >= 2 /\ quantity > 1 /\ MismatchOver(lineTotal, quantity, unitPrice, 2)
        reasons   == (IF highQty THEN <<Reason("high_quantity")>> ELSE <<>>)
                     \o (IF mismatch THEN <<Reason("quantity_mismatch")>> ELSE <<>>)
        c1        == IF highQty THEN Min2(80, 50) ELSE 80
        conf      == IF mismatch THEN Min2(c1, 60) ELSE c1
    IN  IF n = 0 THEN NoItem
        ELSE IF NameLength(line.name) < 2 \/ NameLength(line.name) > 100 THEN NoItem
        ELSE IF lineTotal <= 0 \/ (~IsNull(unitPrice) /\ unitPrice.num <= 0) THEN NoItem
        ELSE [kind |-> "item", quantity |-> quantity, itemName |-> line.name,
              unitPrice |-> unitPrice, lineTotal |-> lineTotal, confidence |-> conf,
              needsReview |-> (Len(reasons) > 0 \/ conf < 70), reviewReasons |-> reasons]

(***************************************************************************)
(* Legacy line parser (server copy), the fallback of parseReceipt          *)
(***************************************************************************)
ParseLineItem(line) ==
    LET quantity == IF line.hasQty THEN line.qty ELSE 1
        prices   == line.prices
        n        == Len(prices)
        swap     == /\ Abs(prices[2] - prices[1] * quantity) > 1
                    /\ Abs(prices[1] - prices[2] * quantity) < Abs(prices[2] - prices[1] * quantity)
        unitPrice == IF n = 1 THEN (IF quantity > 1 THEN Quotient(prices[1], quantity) ELSE NullPrice)
                     ELSE IF n = 2 /\ quantity > 1
                          THEN (IF swap THEN Cents(prices[2]) ELSE Cents(prices[1]))
                     ELSE IF quantity > 1 THEN Cents(prices[n - 1]) ELSE NullPrice
        lineTotal == IF n = 2 /\ quantity > 1 /\ swap THEN prices[1] ELSE prices[n]
    IN  IF n = 0 THEN NoItem
        ELSE IF NameLength(line.name) < 2 \/ NameLength(line.name) > 100 THEN NoItem
        ELSE IF lineTotal <= 0 \/ (~IsNull(unitPrice) /\ unitPrice.num <= 0) THEN NoItem
        ELSE [kind |-> "item", quantity |-> quantity, itemName |-> line.name,
              unitPrice |-> unitPrice, lineTotal |-> lineTotal]

(***************************************************************************)
(* Items of a running parse.  The fields after correctionMetadata are      *)
(* history the program does not keep: the amounts and the confidence the   *)
(* item had when it was pushed, whether a reconstruction or sanity rule    *)
(* fired for it, the proposals the sanity check returned for it, and       *)
(* whether the caller applied a correction.                                *)
(***************************************************************************)
NewItem(name, quantity, unitPrice, totalPrice, confidence, needsReview, reasons) ==
    [name |-> name, quantity |-> quantity, unitPrice |-> unitPrice,
     totalPrice |-> totalPrice, confidence |-> confidence, needsReview |-> needsReview,
     reviewReasons |-> reasons, correctionMetadata |-> NoMetadata,
     parsedQuantity |-> quantity, parsedUnitPrice |-> unitPrice, parsedTotal |-> totalPrice,
     confidenceBefore |-> confidence, reconFired |-> Len(reasons) > 0,
     sanityFired |-> FALSE, sanityConfidence |-> 100, proposals |-> <<>>,
     corrected |-> FALSE]

\* scanReceipt: items.push({... quantity, unit_price, line_total, confidence_score, ...})
ScanReceiptItem(line) ==
    LET r == ReconstructReceiptLine(line)
    IN  IF r = NoItem THEN <<>>
        ELSE <<NewItem(r.itemName, r.quantity, r.unitPrice, r.lineTotal,
                       r.confidence, r.needsReview, r.reviewReasons)>>

\* reconstructed.unitPrice || (quantity > 0 ? lineTotal / quantity : 0)
UnitPriceOrDerived(u, quantity, lineTotal) ==
    IF ~IsNull(u) /\ u.num # 0 THEN u
    ELSE IF quantity > 0 THEN Quotient(lineTotal, quantity) ELSE Cents(0)

\* parseReceipt: reconstruction first, the legacy parser as fallback
ParseReceiptItem(line, ocrConf) ==
    LET r == ReconstructReceiptLine(line)
        l == ParseLineItem(line)
    IN  IF r # NoItem
        THEN <<NewItem(r.itemName, r.quantity,
                       UnitPriceOrDerived(r.unitPrice, r.quantity, r.lineTotal),
                       r.lineTotal, r.confidence, r.needsReview, r.reviewReasons)>>
        ELSE IF l # NoItem
        THEN <<NewItem(l.itemName, l.quantity,
                       UnitPriceOrDerived(l.unitPrice, l.quantity, l.lineTotal),
                       l.lineTotal, (ocrConf * 80) \div 100, FALSE, <<>>)>>
        ELSE <<>>

RECURSIVE ScanReceiptItems(_)
ScanReceiptItems(ls) ==
    IF ls = <<>> THEN <<>> ELSE ScanReceiptItem(Head(ls)) \o ScanReceiptItems(Tail(ls))

RECURSIVE ParseReceiptItems(_, _)
ParseReceiptItems(ls, ocrConf) ==
    IF ls = <<>> THEN <<>>
    ELSE ParseReceiptItem(Head(ls), ocrConf) \o ParseReceiptItems(Tail(ls), ocrConf)

\* const context = { items: items.map(...), receiptTotal: total, subtotal }
BuildContext(its, total) ==
    [items |-> [i \in 1..Len(its) |->
                    [lineTotal |-> its[i].totalPrice, quantity |-> its[i].quantity,
                     unitPrice |-> its[i].unitPrice]],
     receiptTotal |-> total]

\* context.items.filter(i => i.lineTotal !== value)
OtherItems(ctx, value) == SelectSeq(ctx.items, LAMBDA i : i.lineTotal # value)

(***************************************************************************)
(* Receipt-level sanity check of the receipt-aware pipeline                *)
(***************************************************************************)
CommonCents == {95, 90, 50, 99, 0}

\* a sequence holding r when cond, for building reviewReasons in rule order
When(cond, r) == IF cond THEN <<r>> ELSE <<>>

RECURSIVE MinOf(_, _)
MinOf(c, caps) == IF caps = <<>> THEN c ELSE MinOf(Min2(c, Head(caps)), Tail(caps))

CheckReceiptItemSanity(item, ctx) ==
    LET others   == OtherItems(ctx, item.lineTotal)
        n        == Len(others)
        sum      == SumTotals(others)
        \* Rule 1: unit price below 1.00 on a food item
        lowUnit  == ~IsNull(item.unitPrice) /\ item.unitPrice.num < 100 * item.unitPrice.den
                    /\ IsFoodItem(item.itemName)
        suggested == 2000 + ToFixed2(item.unitPrice)
        propose  == lowUnit /\ n > 0 /\ sum > 1000 * n /\ sum < 5000 * n
                    /\ suggested > 1000 /\ suggested < 5000
        \* Rule 2: line total above 110% of the receipt total
        overTotal == ctx.receiptTotal # 0 /\ 10 * item.lineTotal > 11 * ctx.receiptTotal
        \* Rule 3: uncommon cents while a sibling has common cents
        oddCents == (item.lineTotal % 100) \notin CommonCents /\ n > 0
                    /\ \E i \in 1..n : (others[i].lineTotal % 100) \in CommonCents
        \* Rule 4
        highQty  == item.quantity > 6
        \* Rule 5: magnitude
        overMax  == n > 0 /\ item.lineTotal > 2 * MaxTotal(others)
        overAvg  == n > 0 /\ item.lineTotal * n > 5 * sum
        \* Rule 6
        mismatch == item.quantity > 1 /\ ~IsNull(item.unitPrice) /\ item.unitPrice.num > 0
                    /\ MismatchOver(item.lineTotal, item.quantity, item.unitPrice, 2)
        reasons  == When(lowUnit, Reason("unit_price_too_low"))
                    \o When(overTotal, Reason("exceeds_receipt_total"))
                    \o When(oddCents, Reason("uncommon_cents"))
                    \o When(highQty, Reason("high_quantity"))
                    \o When(overMax, Reason("much_higher_than_others"))
                    \o When(overAvg, Reason("order_of_magnitude"))
                    \o When(mismatch, Reason("quantity_mismatch"))
        conf     == MinOf(80, When(lowUnit, 50) \o When(overTotal, 30) \o When(oddCents, 70)
                              \o When(highQty, 50) \o When(overMax, 40) \o When(overAvg, 50)
                              \o When(mismatch, 60))
    IN  [confidence |-> Max2(0, Min2(100, conf)),
         needsReview |-> (Len(reasons) > 0 \/ conf < 70),
         reviewReasons |-> reasons,
         suggestedCorrections |->
             IF propose
             THEN <<[field |-> "unitPrice", originalValue |-> item.unitPrice,
                     suggestedValue |-> suggested]>>
             ELSE <<>>]

(***************************************************************************)
(* Sanity check (server copy) used by parseReceipt                         *)
(***************************************************************************)
CheckItemSanity(item, ctx) ==
    LET others   == OtherItems(ctx, item.lineTotal)
        n        == Len(others)
        sum      == SumTotals(others)
        all      == Len(ctx.items)
        allSum   == SumTotals(ctx.items)
        tooHigh  == all > 0 /\ n > 0 /\ item.lineTotal * n > 8 * sum /\ item.lineTotal > 10000
        tooLow   == all > 0 /\ n > 0 /\ 100 * item.lineTotal * n < 15 * sum /\ sum > 1000 * n
        large    == all > 0 /\ n > 0 /\ ctx.receiptTotal # 0
                    /\ 10 * allSum > 12 * ctx.receiptTotal
                    /\ 2 * item.lineTotal > ctx.receiptTotal
        mismatch == item.quantity > 1 /\ ~IsNull(item.unitPrice)
                    /\ MismatchOver(item.lineTotal, item.quantity, item.unitPrice, 2)
        noise    == HasNameNoise(item.itemName)
        w        == WithoutFirstDigit(item.lineTotal)
        \* priceStr.length > 6: at least 1000.00
        extra    == item.lineTotal >= 100000 /\ all > 0
                    /\ Abs(w * all - allSum) < Abs(item.lineTotal * all - allSum)
        whole    == item.lineTotal % 100 = 0 /\ item.lineTotal > 10000
        reasons  == When(tooHigh, Reason("price_too_high"))
                    \o When(tooLow, Reason("price_too_low"))
                    \o When(large, Reason("large_vs_receipt_total"))
                    \o When(mismatch, Reason("quantity_mismatch"))
                    \o When(noise, Reason("name_noise"))
                    \o When(extra, Reason("extra_leading_digit"))
                    \o When(whole, Reason("whole_number"))
        conf     == 100 - (IF tooHigh THEN 40 ELSE 0) - (IF tooLow THEN 30 ELSE 0)
                        - (IF large THEN 30 ELSE 0) - (IF mismatch THEN 20 ELSE 0)
                        - (IF noise THEN 10 ELSE 0) - (IF extra THEN 30 ELSE 0)
                        - (IF whole THEN 10 ELSE 0)
    IN  [isSuspicious |-> Len(reasons) > 0,
         needsReview |-> (conf < 70 \/ Len(reasons) > 0),
         reviewReasons |-> reasons,
         confidence |-> Max2(0, Min2(100, conf))]

(***************************************************************************)
(* autoCorrectAmount (server copy)                                         *)
(***************************************************************************)
Correction(value, correctedValue, type, conf) ==
    [corrected |-> type # "none", originalValue |-> value,
     correctedValue |-> correctedValue, correctionType |-> type, confidence |-> conf]

\* extra leading digit ("529.95" -> "29.95"): value > avgTotal * 8, value >
\* 100, three digits before the point, ratio in (0.3, 3.0), closer to median
ExtraDigitQualifies(value, ctx) ==
    LET others == OtherItems(ctx, value)
        n      == Len(others)
        sum    == SumTotals(others)
        median == MedianTotal(others)
        w      == WithoutFirstDigit(value)
    IN  /\ value * n > 8 * sum /\ value > 10000
        /\ NumDigits(value \div 100) >= 3
        /\ 10 * w * n > 3 * sum /\ w * n < 3 * sum
        /\ Abs(w - median) < Abs(value - median)

\* missing decimal (2995 -> 29.95): whole number in (10, 10000) of three or
\* more digits, ratio in (0.3, 3.0), closer to median
MissingDecimalQualifies(value, ctx) ==
    LET others == OtherItems(ctx, value)
        n      == Len(others)
        sum    == SumTotals(others)
        median == MedianTotal(others)
        d      == value \div 100
    IN  /\ value % 100 = 0 /\ value > 1000 /\ value < 1000000
        /\ NumDigits(d) >= 3
        /\ 10 * d * n > 3 * sum /\ d * n < 3 * sum
        /\ Abs(d - median) < Abs(value - median)

\* shifted decimal ("2.99" -> "29.9"): value in (0, 100), ratio in (0.5, 2.0),
\* closer to median
ShiftedDecimalQualifies(value, ctx) ==
    LET others == OtherItems(ctx, value)
        n      == Len(others)
        sum    == SumTotals(others)
        median == MedianTotal(others)
        sh     == value * 10
    IN  /\ value < 10000 /\ value > 0
        /\ 2 * sh * n > sum /\ sh * n < 2 * sum
        /\ Abs(sh - median) < Abs(value - median)

\* variant: the missing-decimal strategy is tried before the extra-digit one
AutoCorrectAmountMissingDecimalFirst(value, ctx) ==
    IF Len(ctx.items) = 0 \/ Len(OtherItems(ctx, value)) = 0
    THEN Correction(value, value, "none", 0)
    ELSE IF MissingDecimalQualifies(value, ctx)
    THEN Correction(value, value \div 100, "missing_decimal", 60)
    ELSE IF ExtraDigitQualifies(value, ctx)
    THEN Correction(value, WithoutFirstDigit(value), "extra_digit", 70)
    ELSE IF ShiftedDecimalQualifies(value, ctx)
    THEN Correction(value, value * 10, "shifted_decimal", 50)
    ELSE Correction(value, value, "none", 0)

AutoCorrectAmount(value, ctx) ==
    IF Len(ctx.items) = 0 \/ Len(OtherItems(ctx, value)) = 0
    THEN Correction(value, value, "none", 0)
    ELSE IF ExtraDigitQualifies(value, ctx)
    THEN Correction(value, WithoutFirstDigit(value), "extra_digit", 70)
    ELSE IF MissingDecimalQualifies(value, ctx)
    THEN Correction(value, value \div 100, "missing_decimal", 60)
    ELSE IF ShiftedDecimalQualifies(value, ctx)
    THEN Correction(value, value * 10, "shifted_decimal", 50)
    ELSE Correction(value, value, "none", 0)

(***************************************************************************)
(* The sanity stage of each pipeline, one item                             *)
(***************************************************************************)
SanityInput(item) ==
    [quantity |-> item.quantity, itemName |-> item.name,
     unitPrice |-> item.unitPrice, lineTotal |-> item.totalPrice]

\* variant: scanReceipt writes the checker's suggestion into the item
ScanReceiptApplySanityApplying(item, ctx) ==
    LET r == CheckReceiptItemSanity(SanityInput(item), ctx)
    IN  [item EXCEPT !.confidence = Min2(@, r.confidence),
                     !.needsReview = r.needsReview \/ @,
                     !.reviewReasons = @ \o r.reviewReasons,
                     !.sanityFired = Len(r.reviewReasons) > 0,
                     !.sanityConfidence = r.confidence,
                     !.proposals = r.suggestedCorrections,
                     !.unitPrice = IF r.suggestedCorrections # <<>>
                                   THEN Cents(r.suggestedCorrections[1].suggestedValue)
                                   ELSE @]

\* scanReceipt: min the confidence, or the flag, append the reasons, log the proposals
ScanReceiptApplySanity(item, ctx) ==
    LET r == CheckReceiptItemSanity(SanityInput(item), ctx)
    IN  [item EXCEPT !.confidence = Min2(@, r.confidence),
                     !.needsReview = r.needsReview \/ @,
                     !.reviewReasons = @ \o r.reviewReasons,
                     !.sanityFired = Len(r.reviewReasons) > 0,
                     !.sanityConfidence = r.confidence,
                     !.proposals = r.suggestedCorrections]

\* variant: parseReceipt applies the correction without recording it
ParseReceiptApplySanitySilent(item, ctx) ==
    LET r     == CheckItemSanity(SanityInput(item), ctx)
        tried == r.isSuspicious /\ item.totalPrice > 0
        c     == AutoCorrectAmount(item.totalPrice, ctx)
        apply == tried /\ c.corrected /\ c.confidence > 60
    IN  [item EXCEPT !.confidence = Min2(@, r.confidence),
                     !.needsReview = r.needsReview,
                     !.reviewReasons = r.reviewReasons,
                     !.sanityFired = Len(r.reviewReasons) > 0,
                     !.sanityConfidence = r.confidence,
                     !.proposals = IF tried /\ c.corrected THEN <<c>> ELSE <<>>,
                     !.totalPrice = IF apply THEN c.correctedValue ELSE @,
                     !.corrected = apply]

\* variant: parseReceipt takes the checker's confidence instead of the minimum
ParseReceiptApplySanityOverwriting(item, ctx) ==
    LET r == CheckItemSanity(SanityInput(item), ctx)
    IN  [item EXCEPT !.confidence = r.confidence,
                     !.needsReview = r.needsReview,
                     !.reviewReasons = r.reviewReasons,
                     !.sanityFired = Len(r.reviewReasons) > 0,
                     !.sanityConfidence = r.confidence]

\* parseReceipt: min the confidence, overwrite flag and reasons, then apply a
\* correction whose confidence is above 0.6 and record it
ParseReceiptApplySanity(item, ctx) ==
    LET r     == CheckItemSanity(SanityInput(item), ctx)
        tried == r.isSuspicious /\ item.totalPrice > 0
        c     == AutoCorrectAmount(item.totalPrice, ctx)
        apply == tried /\ c.corrected /\ c.confidence > 60
        checked == [item EXCEPT !.confidence = Min2(@, r.confidence),
                                !.needsReview = r.needsReview,
                                !.reviewReasons = r.reviewReasons,
                                !.sanityFired = Len(r.reviewReasons) > 0,
                                !.sanityConfidence = r.confidence,
                                !.proposals = IF tried /\ c.corrected THEN <<c>> ELSE <<>>]
    IN  IF ~apply THEN checked
        ELSE [checked EXCEPT
                !.totalPrice = c.correctedValue,
                !.unitPrice = IF item.quantity > 0
                              THEN Quotient(c.correctedValue, item.quantity) ELSE @,
                !.correctionMetadata = [originalValue |-> c.originalValue,
                                        correctedValue |-> c.correctedValue,
                                        correctionType |-> c.correctionType],
                !.confidence = Min2(100, @ + 10),
                !.reviewReasons = Append(@, [code |-> "auto_corrected",
                                             from |-> item.totalPrice,
                                             to |-> c.correctedValue]),
                !.corrected = TRUE]

\* parseReceipt's validItems filter
IsValidItem(item) ==
    /\ NameLength(item.name) >= 2
    /\ item.quantity > 0
    /\ item.unitPrice.num >= 0
    /\ item.totalPrice >= 0

(***************************************************************************)
(* OCR engines: data                                                       *)
(***************************************************************************)
\* variants.slice(0, 2)
VariantLimit == 2

\* RECEIPT_PSM_MODES
RECEIPT_PSM_MODES == <<6, 11>>

Passes == 1..2

NoResult == [kind |-> "null"]

NoError == [statusCode |-> 0, code |-> "none"]

\* createError(message, statusCode, code)
CreateError(statusCode, code) == [statusCode |-> statusCode, code |-> code]

\* { text: '', confidence: 0, psm: 11, variant: 'failed' }; text is held as
\* the length of text.trim(), variant as the pass number (0 = 'failed')
FailedResult == [textLength |-> 0, confidence |-> 0, variant |-> 0]

OcrIdle ==
    /\ engine = "none" /\ ocrPc = "idle" /\ numPasses = 0 /\ passIdx = 0
    /\ recognition = [p \in Passes |-> "notStarted"]
    /\ outcome = [p \in Passes |-> "none"]
    /\ ocrResults = <<>> /\ bestResult = NoResult /\ ocrError = NoError

\* the entry points' result: the client's ScanReceiptResult has the
\* needsManualEntry field, the server's ReceiptUploadResult has not
PipeResult(success, itemCount, hasFlag, flag) ==
    [kind |-> "result", success |-> success, itemCount |-> itemCount,
     hasNeedsManualEntry |-> hasFlag, needsManualEntry |-> flag]

PipeIdle ==
    /\ entry = "none" /\ pipeStage = "idle" /\ pipeFailed = FALSE
    /\ pipeResult = NoResult /\ pipeError = NoError /\ pipeScore = -1

Scans == 1..MaxScans

ScannerIdle ==
    /\ scan = [i \in Scans |-> "idle"]
    /\ controllerRef = 0
    /\ aborted = [i \in Scans |-> FALSE]
    /\ uploadSignal = [i \in Scans |-> 0]
    /\ uiStage = "capture" /\ shownResult = 0
    /\ scanError = FALSE /\ apiCheckFailed = FALSE /\ selectedFile = FALSE
    /\ canceled = {} /\ afterCancel = {}

\* lines a parser is called with: "Soda 5.00", "2x Soda 2.00 3.98",
\* "3x Soda 6.00 2.00", "11x X 2.00", ...
LinePrices == {0, 200, 398, 402, 500, 600}

LineInputs ==
    { Line(q # -1, IF q = -1 THEN 1 ELSE q, name, prices) :
        q \in {-1, 0, 2, 3, 11}, name \in {"Soda", "X"},
        prices \in {<<>>} \cup {<<a>> : a \in LinePrices}
                   \cup {<<a, b>> : a \in LinePrices, b \in LinePrices} }

CallIdle == callFn = "none" /\ callIn = Line(FALSE, 1, "X", <<>>) /\ callOut = NoItem

Requests == 1..MaxRequests

UploadIdle ==
    /\ reqPc = [r \in Requests |-> "none"]
    /\ processing = [r \in Requests |-> "none"]
    /\ processingError = [r \in Requests |-> NoError]
    /\ timer = [r \in Requests |-> "none"]
    /\ raceWinner = [r \in Requests |-> "none"]
    /\ responses = [r \in Requests |-> <<>>]
    /\ unhandled = {}

(***************************************************************************)
(* Parsing pipelines: state machine                                        *)
(***************************************************************************)
BoundedSeq(S, n) == UNION {[1..k -> S] : k \in 0..n}

EmptyContext == [items |-> <<>>, receiptTotal |-> 0]

ParseIdle ==
    /\ pipeline = "none" /\ lines = <<>> /\ receiptTotal = 0 /\ ocrConfidence = 0
    /\ phase = "input" /\ items = <<>> /\ context = EmptyContext /\ sanityIdx = 1

InitParse ==
    /\ pipeline = "none"
    /\ lines \in BoundedSeq(OcrLines, MaxLines)
    /\ receiptTotal \in ReceiptTotals
    /\ ocrConfidence = 0
    /\ phase = "input"
    /\ items = <<>>
    /\ context = EmptyContext
    /\ sanityIdx = 1
    /\ OcrIdle /\ PipeIdle /\ ScannerIdle /\ UploadIdle /\ CallIdle

\* scanReceipt steps 3-4: reconstruct every line, then build the context
ScanReceiptReconstruct ==
    /\ phase = "input"
    /\ pipeline' = "scanReceipt"
    /\ items' = ScanReceiptItems(lines)
    /\ context' = BuildContext(items', receiptTotal)
    /\ phase' = "sanity"
    /\ sanityIdx' = 1
    /\ UNCHANGED <<lines, receiptTotal, ocrConfidence>>
    /\ UNCHANGED notParseVars

\* scanReceipt step 5, one iteration of the loop
ScanReceiptSanityStep ==
    /\ pipeline = "scanReceipt" /\ phase = "sanity"
    /\ sanityIdx <= Len(items)
    /\ items' = [items EXCEPT ![sanityIdx] = ScanReceiptApplySanity(@, context)]
    /\ sanityIdx' = sanityIdx + 1
    /\ UNCHANGED <<pipeline, lines, receiptTotal, ocrConfidence, phase, context>>
    /\ UNCHANGED notParseVars

ScanReceiptReturn ==
    /\ pipeline = "scanReceipt" /\ phase = "sanity"
    /\ sanityIdx > Len(items)
    /\ phase' = "done"
    /\ UNCHANGED <<pipeline, lines, receiptTotal, ocrConfidence, items, context, sanityIdx>>
    /\ UNCHANGED notParseVars

\* parseReceipt: the item loop and the context
ParseReceiptParse ==
    /\ phase = "input"
    /\ \E c \in OcrConfidences :
        /\ ocrConfidence' = c
        /\ items' = ParseReceiptItems(lines, c)
    /\ pipeline' = "parseReceipt"
    /\ context' = BuildContext(items', receiptTotal)
    /\ phase' = "sanity"
    /\ sanityIdx' = 1
    /\ UNCHANGED <<lines, receiptTotal>>
    /\ UNCHANGED notParseVars

ParseReceiptSanityStep ==
    /\ pipeline = "parseReceipt" /\ phase = "sanity"
    /\ sanityIdx <= Len(items)
    /\ items' = [items EXCEPT ![sanityIdx] = ParseReceiptApplySanity(@, context)]
    /\ sanityIdx' = sanityIdx + 1
    /\ UNCHANGED <<pipeline, lines, receiptTotal, ocrConfidence, phase, context>>
    /\ UNCHANGED notParseVars

ParseReceiptReturn ==
    /\ pipeline = "parseReceipt" /\ phase = "sanity"
    /\ sanityIdx > Len(items)
    /\ items' = SelectSeq(items, IsValidItem)
    /\ phase' = "done"
    /\ UNCHANGED <<pipeline, lines, receiptTotal, ocrConfidence, context, sanityIdx>>
    /\ UNCHANGED notParseVars

\* client parseReceiptText: the first line parseLineItem accepts reads the
\* undeclared identifier `normalized` while building the item (ReferenceError);
\* with no accepted line the items stay empty and the sanity loop is skipped
ParseReceiptText ==
    /\ phase = "input"
    /\ pipeline' = "parseReceiptText"
    /\ items' = <<>>
    /\ phase' = IF \E i \in 1..Len(lines) : ParseLineItem(lines[i]) # NoItem
                THEN "threw" ELSE "done"
    /\ UNCHANGED <<lines, receiptTotal, ocrConfidence, context, sanityIdx>>
    /\ UNCHANGED notParseVars

NextParse ==
    \/ ScanReceiptReconstruct
    \/ ScanReceiptSanityStep
    \/ ScanReceiptReturn
    \/ ParseReceiptParse
    \/ ParseReceiptSanityStep
    \/ ParseReceiptReturn
    \/ ParseReceiptText

SpecParse == InitParse /\ [][NextParse]_vars

(***************************************************************************)
(* Properties of the sanity / auto-correction stage                        *)
(***************************************************************************)
ItemIdx == 1..Len(items)

AmountsAsParsed(item) ==
    /\ item.quantity = item.parsedQuantity
    /\ item.unitPrice = item.parsedUnitPrice
    /\ item.totalPrice = item.parsedTotal

\* C1 as stated: in every pipeline every output item's line total, unit
\* price and quantity are the values line reconstruction produced.
C1_AmountsNeverChange == \A i \in ItemIdx : AmountsAsParsed(items[i])

\* C1: the checkers and autoCorrectAmount only return proposals; scanReceipt
\* leaves every item's quantity, unit price and line total as reconstructed;
\* parseReceipt never changes a quantity and changes a line total (and the
\* unit price with it) only to the value of a proposal autoCorrectAmount
\* returned for that item's parsed total with confidence above 0.6.
C1_OnlyParseReceiptAppliesProposals ==
    \A i \in ItemIdx :
        LET item == items[i]
        IN  /\ item.quantity = item.parsedQuantity
            /\ pipeline = "scanReceipt" => AmountsAsParsed(item)
            /\ pipeline = "parseReceipt" =>
                 IF item.corrected
                 THEN /\ Len(item.proposals) = 1
                      /\ item.proposals[1].confidence > 60
                      /\ item.proposals[1].originalValue = item.parsedTotal
                      /\ item.proposals[1].correctedValue = item.totalPrice
                 ELSE AmountsAsParsed(item)

\* C1 witness: scanReceipt returned an item for which the checker proposed a
\* unit price, and the item still has its reconstructed amounts.
C1_Witness ==
    /\ pipeline = "scanReceipt" /\ phase = "done"
    /\ \E i \in ItemIdx : items[i].proposals # <<>> /\ AmountsAsParsed(items[i])

\* C2: an item whose total differs from its parsed total carries
\* correctionMetadata with originalValue = the parsed total and
\* correctedValue = the output total, and a review reason recording the change.
C2_ChangedTotalIsRecorded ==
    \A i \in ItemIdx :
        LET item == items[i]
        IN  item.totalPrice # item.parsedTotal =>
              /\ item.correctionMetadata # NoMetadata
              /\ item.correctionMetadata.originalValue = item.parsedTotal
              /\ item.correctionMetadata.correctedValue = item.totalPrice
              /\ \E k \in 1..Len(item.reviewReasons) :
                    item.reviewReasons[k] = [code |-> "auto_corrected",
                                             from |-> item.parsedTotal,
                                             to |-> item.totalPrice]

\* C2 witness: parseReceipt returned an item whose total was corrected.
C2_Witness ==
    /\ pipeline = "parseReceipt" /\ phase = "done"
    /\ \E i \in ItemIdx : items[i].totalPrice # items[i].parsedTotal

\* C3 as stated: an item's confidence after the sanity stage is at most its
\* confidence before the stage.
C3_ConfidenceNeverRaised ==
    \A i \in ItemIdx : items[i].confidence <= items[i].confidenceBefore

\* C3: the sanity check itself only lowers confidence (the item gets the
\* minimum of its own and the checker's); only an item parseReceipt
\* auto-corrected ends higher, at that minimum plus 0.1 capped at 1.
C3_ConfidenceRaisedOnlyByCorrection ==
    \A i \in ItemIdx :
        LET item == items[i]
            low  == Min2(item.confidenceBefore, item.sanityConfidence)
        IN  IF item.corrected
            THEN pipeline = "parseReceipt" /\ item.confidence = Min2(100, low + 10)
            ELSE item.confidence = low

\* C3 witness: parseReceipt auto-corrected an item and its confidence is
\* above the confidence it had before the stage.
C3_Witness ==
    /\ phase = "done"
    /\ \E i \in ItemIdx :
          items[i].corrected /\ items[i].confidence > items[i].confidenceBefore

\* C4: once the sanity stage has processed it, an item has needsReview
\* whenever a reconstruction or sanity rule fired for it or its confidence
\* is below 0.7.
C4_ReviewFlagComplete ==
    \A i \in ItemIdx :
        LET item == items[i]
        IN  (phase = "done" \/ i < sanityIdx) =>
              ((item.reconFired \/ item.sanityFired \/ item.confidence < 70)
                  => item.needsReview)

\* C13: every item scanReceipt holds, which is every item line reconstruction
\* returned, has quantity >= 1, line total > 0 and a unit price that is
\* absent or > 0.
C13_ReconstructedItemWellFormed ==
    pipeline = "scanReceipt" =>
        \A i \in ItemIdx :
            /\ items[i].parsedQuantity >= 1
            /\ items[i].parsedTotal > 0
            /\ IsNull(items[i].parsedUnitPrice) \/ items[i].parsedUnitPrice.num > 0

\* C27: when the client parser has run, every line parseLineItem accepts has
\* given exactly one item of the returned receipt.
C27_AcceptedLineYieldsOneItem ==
    (pipeline = "parseReceiptText" /\ phase \in {"done", "threw"}) =>
        /\ phase = "done"
        /\ Len(items) = Cardinality({i \in 1..Len(lines) : ParseLineItem(lines[i]) # NoItem})

(***************************************************************************)
(* OCR engines: state machine                                              *)
(***************************************************************************)
\* what a recognition can resolve with: result.data.confidence (percent) and
\* the length of result.data.text.trim()
RecognizedConfidences == {0, 50, 80, 90}

RecognizedTextLengths == {0, 5, 40}

InitOcr == OcrIdle /\ ParseIdle /\ PipeIdle /\ ScannerIdle /\ UploadIdle /\ CallIdle

\* performMultiPassOCR up to its first await
ClientStart ==
    /\ engine = "none"
    /\ \E n \in 0..MaxVariants :
        /\ numPasses' = Min2(n, VariantLimit)
        /\ IF numPasses' = 0
           THEN /\ ocrPc' = "returned"
                /\ ocrResults' = <<FailedResult>>
                /\ UNCHANGED <<passIdx, recognition>>
           ELSE /\ ocrPc' = "awaiting"
                /\ passIdx' = 1
                /\ recognition' = [recognition EXCEPT ![1] = "running"]
                /\ UNCHANGED ocrResults
    /\ engine' = "client"
    /\ UNCHANGED <<outcome, bestResult, ocrError>>
    /\ UNCHANGED notOcrVars

\* performMultiPassOCR from the settling of one race to the next await or
\* the return; `settled` is the state the pass's Tesseract job is left in
ClientContinue(o, conf, len, settled) ==
    LET pushed == o = "ok" /\ len > 10
        res    == IF pushed
                  THEN Append(ocrResults, [textLength |-> len, confidence |-> conf,
                                           variant |-> passIdx])
                  ELSE ocrResults
        stop   == (pushed /\ conf > 80) \/ passIdx = numPasses
        rec    == [recognition EXCEPT ![passIdx] = settled]
    IN  /\ outcome' = [outcome EXCEPT ![passIdx] = o]
        /\ IF stop
           THEN /\ ocrResults' = IF res = <<>> THEN <<FailedResult>> ELSE res
                /\ ocrPc' = "returned"
                /\ recognition' = rec
                /\ UNCHANGED passIdx
           ELSE /\ ocrResults' = res
                /\ ocrPc' = "awaiting"
                /\ passIdx' = passIdx + 1
                /\ recognition' = [rec EXCEPT ![passIdx + 1] = "running"]
        /\ UNCHANGED <<engine, numPasses, bestResult, ocrError>>
        /\ UNCHANGED notOcrVars

ClientRecognizeResolves ==
    /\ engine = "client" /\ ocrPc = "awaiting"
    /\ \E conf \in RecognizedConfidences, len \in RecognizedTextLengths :
          ClientContinue("ok", conf, len, "resolved")

ClientRecognizeRejects ==
    /\ engine = "client" /\ ocrPc = "awaiting"
    /\ ClientContinue("failed", 0, 0, "rejected")

\* the 60 s timer wins the race: the catch logs and the loop goes on; nothing
\* stops the recognition, which stays running
ClientPassTimeout ==
    /\ engine = "client" /\ ocrPc = "awaiting"
    /\ ClientContinue("timeout", 0, 0, "running")

\* runReceiptOCR up to its first await
ServerStart ==
    /\ engine = "none"
    /\ engine' = "server"
    /\ \E bufferEmpty \in BOOLEAN :
        IF bufferEmpty
        THEN /\ ocrPc' = "threw"
             /\ ocrError' = CreateError(400, "EMPTY_BUFFER")
             /\ UNCHANGED <<numPasses, passIdx, recognition>>
        ELSE /\ ocrPc' = "awaiting"
             /\ numPasses' = Len(RECEIPT_PSM_MODES)
             /\ passIdx' = 1
             /\ recognition' = [recognition EXCEPT ![1] = "running"]
             /\ UNCHANGED ocrError
    /\ UNCHANGED <<outcome, ocrResults, bestResult>>
    /\ UNCHANGED notOcrVars

BestConfidence == IF bestResult = NoResult THEN 0 ELSE bestResult.confidence

\* runReceiptOCR from the settling of one race to the next await, the return
\* or the throw
ServerContinue(o, conf, len, settled) ==
    LET best == IF o = "ok" /\ conf > BestConfidence
                THEN [kind |-> "result", textLength |-> len, confidence |-> conf,
                      selectedPSM |-> RECEIPT_PSM_MODES[passIdx]]
                ELSE bestResult
        stop == (o = "ok" /\ conf > 80) \/ passIdx = numPasses
        rec  == [recognition EXCEPT ![passIdx] = settled]
    IN  /\ outcome' = [outcome EXCEPT ![passIdx] = o]
        /\ IF o = "timeout"
           THEN /\ ocrPc' = "threw"
                /\ ocrError' = CreateError(408, "OCR_TIMEOUT")
                /\ recognition' = rec
                /\ UNCHANGED <<passIdx, bestResult>>
           ELSE IF stop
           THEN /\ bestResult' = best
                /\ recognition' = rec
                /\ IF best = NoResult
                   THEN ocrPc' = "threw" /\ ocrError' = CreateError(500, "OCR_ALL_FAILED")
                   ELSE ocrPc' = "returned" /\ UNCHANGED ocrError
                /\ UNCHANGED passIdx
           ELSE /\ bestResult' = best
                /\ ocrPc' = "awaiting"
                /\ passIdx' = passIdx + 1
                /\ recognition' = [rec EXCEPT ![passIdx + 1] = "running"]
                /\ UNCHANGED ocrError
        /\ UNCHANGED <<engine, numPasses, ocrResults>>
        /\ UNCHANGED notOcrVars

ServerRecognizeResolves ==
    /\ engine = "server" /\ ocrPc = "awaiting"
    /\ \E conf \in RecognizedConfidences, len \in RecognizedTextLengths :
          ServerContinue("ok", conf, len, "resolved")

ServerRecognizeRejects ==
    /\ engine = "server" /\ ocrPc = "awaiting"
    /\ ServerContinue("failed", 0, 0, "rejected")

\* the timer wins the race: `if (error.statusCode === 408) throw error`
ServerPassTimeout ==
    /\ engine = "server" /\ ocrPc = "awaiting"
    /\ ServerContinue("timeout", 0, 0, "running")

\* a recognition whose race the timer already won settles: nobody awaits it
LateRecognitionSettles ==
    /\ \E p \in Passes :
        /\ recognition[p] = "running"
        /\ ~(ocrPc = "awaiting" /\ p = passIdx)
        /\ \E s \in {"resolved", "rejected"} :
              recognition' = [recognition EXCEPT ![p] = s]
    /\ UNCHANGED <<engine, ocrPc, numPasses, passIdx, outcome, ocrResults,
                   bestResult, ocrError>>
    /\ UNCHANGED notOcrVars

NextOcr ==
    \/ ClientStart
    \/ ClientRecognizeResolves
    \/ ClientRecognizeRejects
    \/ ClientPassTimeout
    \/ ServerStart
    \/ ServerRecognizeResolves
    \/ ServerRecognizeRejects
    \/ ServerPassTimeout
    \/ LateRecognitionSettles

SpecOcr == InitOcr /\ [][NextOcr]_vars

(***************************************************************************)
(* Properties of the OCR engines                                           *)
(***************************************************************************)
EngineFinished == ocrPc \in {"returned", "threw"}

\* every pass of the list was tried, and each one failed or timed out
NoPassSucceeded ==
    /\ numPasses > 0
    /\ \A p \in 1..numPasses : outcome[p] \in {"failed", "timeout"}

\* C6: when the engine has finished and every pass failed or timed out, it
\* has returned (not thrown), and what it returned is an empty result.
C6_AllFailedReturnsEmpty ==
    (EngineFinished /\ NoPassSucceeded) =>
        /\ ocrPc = "returned"
        /\ engine = "client" => ocrResults = <<FailedResult>>

\* C7: when the engine has finished, every pass that follows a timed-out
\* pass in the list has been started.
C7_TimeoutThenNextPass ==
    EngineFinished =>
        \A p \in 1..numPasses :
            (outcome[p] = "timeout" /\ p < numPasses) =>
                recognition[p + 1] # "notStarted"

\* C8: at no time are two recognitions of one invocation running.
C8_OneRecognitionAtATime ==
    Cardinality({p \in Passes : recognition[p] = "running"}) <= 1

(***************************************************************************)
(* Pipeline entry points: state machine                                    *)
(***************************************************************************)
InitPipeline == PipeIdle /\ OcrIdle /\ ParseIdle /\ ScannerIdle /\ UploadIdle /\ CallIdle

\* scores of the selected OCR result (calculateScore of its text)
Scores == {0, 49, 50, 120}

\* isLowConfidence(scoredResult)
IsLowConfidence(score) == score < 50

\* variant: manual entry decided by the score alone
NeedsManualEntryByScoreOnly(score, itemCount) == IsLowConfidence(score)

\* const needsManualEntry = isLowConfidence(bestResult) || items.length === 0
NeedsManualEntry(score, itemCount) == IsLowConfidence(score) \/ itemCount = 0

\* return of the client's catch blocks and empty-result branches
ClientGivesUp ==
    /\ pipeStage' = "returned"
    /\ pipeFailed' = TRUE
    /\ pipeResult' = PipeResult(FALSE, 0, TRUE, TRUE)
    /\ UNCHANGED <<entry, pipeError>>

\* client scanReceipt: input validation up to the preprocessing race
ClientScanStart ==
    /\ entry = "none"
    /\ entry' = "clientScanReceipt"
    /\ \E file \in {"ok", "notAFile", "empty", "tooLarge"} :
        IF file = "ok"
        THEN pipeStage' = "preprocess" /\ UNCHANGED <<pipeFailed, pipeResult>>
        ELSE /\ pipeStage' = "returned"
             /\ pipeFailed' = TRUE
             /\ pipeResult' = PipeResult(FALSE, 0, TRUE, TRUE)
    /\ UNCHANGED <<pipeError, ocrVars>>
    /\ UNCHANGED pipeScore
    /\ UNCHANGED notPipeVars

\* the preprocessing race settles; with variants the OCR stage is entered
ClientPreprocessSettles ==
    /\ entry = "clientScanReceipt" /\ pipeStage = "preprocess"
    /\ \E o \in {"variants", "noVariants", "rejected", "timeout"} :
        IF o = "variants"
        THEN /\ pipeStage' = "ocr"
             /\ UNCHANGED <<entry, pipeFailed, pipeResult, pipeError>>
        ELSE ClientGivesUp
    /\ UNCHANGED ocrVars
    /\ UNCHANGED pipeScore
    /\ UNCHANGED notPipeVars

\* scanReceipt calls performMultiPassOCR(variants, ...)
ClientScanCallsEngine ==
    /\ entry = "clientScanReceipt" /\ pipeStage = "ocr"
    /\ ClientStart

\* the engine returned first: scoring, parsing, the result.  An engine
\* result of empty text throws in the parse block; parseReceiptText throws on
\* the first line it accepts and otherwise finds no item: either way the
\* receipt has no items.
ClientScanEngineReturns ==
    /\ entry = "clientScanReceipt" /\ pipeStage = "ocr" /\ ocrPc = "returned"
    /\ \E ls \in BoundedSeq(OcrLines, 1), score \in Scores :
        LET emptyText  == ocrResults = <<FailedResult>>
            parseThrew == emptyText
                          \/ \E i \in 1..Len(ls) : ParseLineItem(ls[i]) # NoItem
            itemCount  == 0
        IN  /\ pipeFailed' = (parseThrew \/ itemCount = 0)
            /\ pipeScore' = score
            /\ pipeResult' = PipeResult(itemCount > 0, itemCount, TRUE,
                                        NeedsManualEntry(score, itemCount))
    /\ pipeStage' = "returned"
    /\ UNCHANGED <<entry, pipeError, ocrVars>>
    /\ UNCHANGED notPipeVars

\* the 60 s OCR timer of scanReceipt wins: ocrResults = [] and the empty
\* result is returned; the engine keeps running
ClientScanOcrTimeout ==
    /\ entry = "clientScanReceipt" /\ pipeStage = "ocr" /\ ocrPc = "awaiting"
    /\ ClientGivesUp
    /\ UNCHANGED ocrVars
    /\ UNCHANGED pipeScore
    /\ UNCHANGED notPipeVars

\* server scanReceipt, called directly or by processReceiptUpload, up to the
\* await of detectAndCropReceipt
ServerScanStart ==
    /\ entry = "none"
    /\ entry' \in {"serverScanReceipt", "processReceiptUpload"}
    /\ pipeStage' = "detect"
    /\ UNCHANGED <<pipeFailed, pipeResult, pipeError, ocrVars>>
    /\ UNCHANGED pipeScore
    /\ UNCHANGED notPipeVars

\* detection settles; a failure is replaced by the uncropped image
ServerDetectSettles ==
    /\ pipeStage = "detect"
    /\ pipeStage' = "ocr"
    /\ UNCHANGED <<entry, pipeFailed, pipeResult, pipeError, ocrVars>>
    /\ UNCHANGED pipeScore
    /\ UNCHANGED notPipeVars

\* scanReceipt calls runReceiptOCR(croppedBuffer, { timeout: 30000 })
ServerScanCallsEngine ==
    /\ entry \in {"serverScanReceipt", "processReceiptUpload"} /\ pipeStage = "ocr"
    /\ ServerStart

\* runReceiptOCR returned: normalise, reconstruct, sanity checks, result
ServerScanEngineReturns ==
    /\ entry \in {"serverScanReceipt", "processReceiptUpload"}
    /\ pipeStage = "ocr" /\ ocrPc = "returned"
    /\ \E ls \in BoundedSeq(OcrLines, 1) :
        LET itemCount == Len(ScanReceiptItems(ls))
        IN  pipeResult' = PipeResult(itemCount > 0, itemCount, FALSE, FALSE)
    /\ pipeStage' = "returned"
    /\ UNCHANGED <<entry, pipeFailed, pipeError, ocrVars>>
    /\ UNCHANGED pipeScore
    /\ UNCHANGED notPipeVars

\* runReceiptOCR threw: scanReceipt rethrows the typed error; its caller
\* processReceiptUpload catches it and starts the legacy pipeline
ServerScanEngineThrows ==
    /\ entry \in {"serverScanReceipt", "processReceiptUpload"}
    /\ pipeStage = "ocr" /\ ocrPc = "threw"
    /\ IF entry = "serverScanReceipt"
       THEN /\ pipeStage' = "threw"
            /\ pipeFailed' = TRUE
            /\ pipeError' = ocrError
       ELSE /\ pipeStage' = "legacyDetect"
            /\ UNCHANGED <<pipeFailed, pipeError>>
    /\ UNCHANGED <<entry, pipeResult, ocrVars>>
    /\ UNCHANGED pipeScore
    /\ UNCHANGED notPipeVars

\* processReceiptUploadLegacy: detection, then preprocessing
LegacyDetectSettles ==
    /\ pipeStage = "legacyDetect"
    /\ pipeStage' = "legacyPreprocess"
    /\ UNCHANGED <<entry, pipeFailed, pipeResult, pipeError, ocrVars>>
    /\ UNCHANGED pipeScore
    /\ UNCHANGED notPipeVars

LegacyPreprocessSettles ==
    /\ pipeStage = "legacyPreprocess"
    /\ \E ok \in BOOLEAN :
        IF ok
        THEN pipeStage' = "legacyOcr" /\ UNCHANGED <<pipeFailed, pipeError>>
        ELSE /\ pipeStage' = "threw"
             /\ pipeFailed' = TRUE
             /\ pipeError' = CreateError(400, "PREPROCESSING_ERROR")
    /\ UNCHANGED <<entry, pipeResult, ocrVars>>
    /\ UNCHANGED pipeScore
    /\ UNCHANGED notPipeVars

\* runOCR settles: parseReceipt (which catches its own exceptions) and the
\* result, or the typed error rethrown
LegacyOcrSettles ==
    /\ pipeStage = "legacyOcr"
    /\ \E o \in {"recognized", "timeout", "rejected"} :
        IF o = "recognized"
        THEN /\ \E ls \in BoundedSeq(OcrLines, 1), c \in OcrConfidences :
                LET itemCount == Len(SelectSeq(ParseReceiptItems(ls, c), IsValidItem))
                IN  pipeResult' = PipeResult(itemCount > 0, itemCount, FALSE, FALSE)
             /\ pipeStage' = "returned"
             /\ UNCHANGED <<pipeFailed, pipeError>>
        ELSE /\ pipeStage' = "threw"
             /\ pipeFailed' = TRUE
             /\ pipeError' = IF o = "timeout" THEN CreateError(408, "OCR_TIMEOUT")
                             ELSE CreateError(500, "OCR_EXECUTION_ERROR")
             /\ UNCHANGED pipeResult
    /\ UNCHANGED <<entry, ocrVars>>
    /\ UNCHANGED pipeScore
    /\ UNCHANGED notPipeVars

NextPipeline ==
    \/ ClientScanStart
    \/ ClientPreprocessSettles
    \/ ClientScanCallsEngine
    \/ ClientScanEngineReturns
    \/ ClientScanOcrTimeout
    \/ ServerScanStart
    \/ ServerDetectSettles
    \/ ServerScanCallsEngine
    \/ ServerScanEngineReturns
    \/ ServerScanEngineThrows
    \/ LegacyDetectSettles
    \/ LegacyPreprocessSettles
    \/ LegacyOcrSettles
    \/ ClientRecognizeResolves
    \/ ClientRecognizeRejects
    \/ ClientPassTimeout
    \/ ServerRecognizeResolves
    \/ ServerRecognizeRejects
    \/ ServerPassTimeout
    \/ LateRecognitionSettles

SpecPipeline == InitPipeline /\ [][NextPipeline]_vars

(***************************************************************************)
(* Properties of the entry points                                          *)
(***************************************************************************)
\* C5: an entry point never throws, and when a stage failed the result it
\* returns carries needsManualEntry = true.
C5_FailureYieldsManualEntry ==
    /\ pipeStage # "threw"
    /\ (pipeStage = "returned" /\ pipeFailed) =>
          pipeResult.hasNeedsManualEntry /\ pipeResult.needsManualEntry

\* C12: whenever the client pipeline returns a result with zero items, or
\* one whose selected OCR result scored below 50, needsManualEntry is true.
C12_ManualEntryWhenEmptyOrLowScore ==
    (entry = "clientScanReceipt" /\ pipeStage = "returned") =>
        ((pipeResult.itemCount = 0 \/ (pipeScore # -1 /\ pipeScore < 50)) =>
            pipeResult.hasNeedsManualEntry /\ pipeResult.needsManualEntry)

\* C12 witness: the selected result scored 50 or more, nothing was parsed
\* from it, and the result asks for manual entry.
C12_Witness ==
    /\ entry = "clientScanReceipt" /\ pipeStage = "returned"
    /\ pipeScore >= 50 /\ pipeResult.itemCount = 0
    /\ pipeResult.needsManualEntry

\* C11: once the receipt-aware pipeline has rejected the input as invalid
\* (EMPTY_BUFFER), processReceiptUpload runs no legacy stage on it.
C11_InvalidInputNotRetried ==
    ~(/\ entry = "processReceiptUpload"
      /\ ocrError = CreateError(400, "EMPTY_BUFFER")
      /\ pipeStage \in {"legacyDetect", "legacyPreprocess", "legacyOcr"})

(***************************************************************************)
(* ReceiptScanner: state machine                                           *)
(***************************************************************************)
InitScanner == ScannerIdle /\ ParseIdle /\ OcrIdle /\ PipeIdle /\ UploadIdle /\ CallIdle

InProgress(i) == scan[i] \in {"health", "upload", "clientOcr"}

\* what a canceled call does is recorded
Did(i, what) == IF i \in canceled THEN afterCancel \cup {<<i, what>>} ELSE afterCancel

\* abortControllerRef.current?.signal.aborted
RefSignalAborted == controllerRef # 0 /\ aborted[controllerRef]

\* the catch of processFile (setError, setStage('capture')) and its finally
\* (abortControllerRef.current = null)
ProcessFileFails(i, apiNotReachable) ==
    /\ scan' = [scan EXCEPT ![i] = "done"]
    /\ scanError' = TRUE
    /\ uiStage' = "capture"
    /\ controllerRef' = 0
    /\ apiCheckFailed' = (apiCheckFailed \/ apiNotReachable)
    /\ UNCHANGED <<aborted, uploadSignal, shownResult, selectedFile, canceled,
                   afterCancel>>

\* setScanResult, setResult, setStage('review'), then the finally
ProcessFilePublishes(i) ==
    /\ scan' = [scan EXCEPT ![i] = "done"]
    /\ shownResult' = i
    /\ uiStage' = "review"
    /\ controllerRef' = 0
    /\ afterCancel' = Did(i, "published")
    /\ UNCHANGED <<aborted, uploadSignal, scanError, apiCheckFailed, selectedFile,
                   canceled>>

\* runClientSideOcr() up to its await
ProcessFileStartsClientOcr(i) ==
    /\ scan' = [scan EXCEPT ![i] = "clientOcr"]
    /\ afterCancel' = Did(i, "clientOcr")
    /\ UNCHANGED <<controllerRef, aborted, uploadSignal, uiStage, shownResult,
                   scanError, apiCheckFailed, selectedFile, canceled>>

\* processFile(file, options) up to its first await; the capture stage
\* offers the file inputs, and "Try Client-Side OCR Instead" after a failed
\* API check while a file is selected
ProcessFile(i) ==
    /\ scan[i] = "idle" /\ \A j \in 1..(i - 1) : scan[j] # "idle"
    /\ uiStage = "capture"
    /\ \E forceClient \in BOOLEAN, validFile \in BOOLEAN :
        /\ forceClient => (scanError /\ apiCheckFailed /\ selectedFile /\ validFile)
        /\ IF ~validFile
           THEN /\ scan' = [scan EXCEPT ![i] = "done"]
                /\ scanError' = TRUE
                /\ apiCheckFailed' = FALSE
                /\ UNCHANGED <<controllerRef, uiStage, selectedFile>>
           ELSE /\ scan' = [scan EXCEPT ![i] = IF forceClient THEN "clientOcr" ELSE "health"]
                /\ controllerRef' = i
                /\ uiStage' = "processing"
                /\ selectedFile' = TRUE
                /\ scanError' = FALSE
                /\ apiCheckFailed' = FALSE
    /\ UNCHANGED <<aborted, uploadSignal, shownResult, canceled, afterCancel>>
    /\ UNCHANGED notScannerVars

\* checkApiHealth(2000, signal) settles: false once the signal is aborted;
\* true goes on to uploadReceiptImage with the signal the ref holds now
HealthCheckSettles(i) ==
    /\ scan[i] = "health"
    /\ \E available \in BOOLEAN :
        /\ aborted[i] => ~available
        /\ IF available
           THEN /\ scan' = [scan EXCEPT ![i] = "upload"]
                /\ uploadSignal' = [uploadSignal EXCEPT ![i] = controllerRef]
                /\ afterCancel' = Did(i, "upload")
                /\ UNCHANGED <<controllerRef, aborted, uiStage, shownResult, scanError,
                               apiCheckFailed, selectedFile, canceled>>
           ELSE ProcessFileFails(i, TRUE)
    /\ UNCHANGED notScannerVars

\* uploadReceiptImage settles.  An abort of its signal rejects the fetch
\* with AbortError, which uploadReceiptImage rethrows as
\* Error('Upload timeout - ...'): processFile takes that, like a network
\* error, as the cue for the client-side fallback
UploadSettles(i) ==
    /\ scan[i] = "upload"
    /\ \E o \in {"ok", "serverError", "networkError", "aborted"} :
        /\ (uploadSignal[i] # 0 /\ aborted[uploadSignal[i]]) => o = "aborted"
        /\ CASE o = "ok" -> ProcessFilePublishes(i)
             [] o = "serverError" -> ProcessFileFails(i, FALSE)
             [] OTHER -> ProcessFileStartsClientOcr(i)
    /\ UNCHANGED notScannerVars

\* the race of runClientSideOcr settles: the 60 s timer rejects, or
\* scanReceiptFull resolves and the abort check reads the ref
ClientOcrSettles(i) ==
    /\ scan[i] = "clientOcr"
    /\ \E timedOut \in BOOLEAN :
        IF timedOut \/ RefSignalAborted
        THEN ProcessFileFails(i, FALSE)
        ELSE ProcessFilePublishes(i)
    /\ UNCHANGED notScannerVars

\* handleCancel: abort the controller the ref holds, then reset()
HandleCancel ==
    /\ uiStage = "processing"
    /\ aborted' = IF controllerRef # 0 THEN [aborted EXCEPT ![controllerRef] = TRUE]
                  ELSE aborted
    /\ controllerRef' = 0
    /\ uiStage' = "capture"
    /\ shownResult' = 0
    /\ scanError' = FALSE /\ apiCheckFailed' = FALSE /\ selectedFile' = FALSE
    /\ canceled' = canceled \cup {i \in Scans : InProgress(i)}
    /\ UNCHANGED <<scan, uploadSignal, afterCancel>>
    /\ UNCHANGED notScannerVars

NextScanner ==
    \/ \E i \in Scans : ProcessFile(i)
    \/ \E i \in Scans : HealthCheckSettles(i)
    \/ \E i \in Scans : UploadSettles(i)
    \/ \E i \in Scans : ClientOcrSettles(i)
    \/ HandleCancel

SpecScanner == InitScanner /\ [][NextScanner]_vars

(***************************************************************************)
(* Properties of the scanner                                               *)
(***************************************************************************)
\* C9: a canceled scan starts no upload and no client-side OCR and publishes
\* no result (so never moves the scanner to review) after the Cancel.
C9_CanceledScanDoesNothingMore == afterCancel = {}

\* C28: when an earlier scan completes while a later scan is in progress, the
\* AbortController the ref holds for the later scan, the stage and the shown
\* result stay as they are; and Cancel aborts the scan in progress.
C28_LaterScanUndisturbed ==
    [][/\ \A i, j \in Scans :
            (i < j /\ scan[i] # "done" /\ scan'[i] = "done" /\ InProgress(j)) =>
                /\ controllerRef' = controllerRef
                /\ uiStage' = uiStage
                /\ shownResult' = shownResult
       /\ \A j \in Scans :
            (InProgress(j) /\ uiStage = "processing" /\ uiStage' = "capture"
                /\ scan' = scan /\ \A i \in Scans : i > j => scan[i] = "idle") =>
                aborted'[j]]_vars

(***************************************************************************)
(* Upload route: state machine                                             *)
(***************************************************************************)
InitUpload == UploadIdle /\ ParseIdle /\ OcrIdle /\ PipeIdle /\ ScannerIdle /\ CallIdle

\* res.json({ ok: true, data: result })
OkResponse == [status |-> 200, code |-> "ok"]

\* errorHandler for an error made by createError, else the default 500
ErrorHandler(err) ==
    IF err.statusCode # 0
    THEN [status |-> err.statusCode,
          code |-> IF err.code = "none" THEN "API_ERROR" ELSE err.code]
    ELSE [status |-> 500, code |-> "INTERNAL_SERVER_ERROR"]

\* validateUploadedFile
ValidationErrors ==
    [missing |-> CreateError(400, "MISSING_FILE"), empty |-> CreateError(400, "EMPTY_FILE"),
     tooLarge |-> CreateError(400, "FILE_TOO_LARGE"),
     emptyBuffer |-> CreateError(400, "EMPTY_BUFFER")]

\* what processReceiptUpload rejects with
ProcessingErrors ==
    {CreateError(400, "PREPROCESSING_ERROR"), CreateError(408, "OCR_TIMEOUT"),
     CreateError(500, "OCR_EXECUTION_ERROR"), CreateError(500, "RECEIPT_PROCESSING_ERROR")}

\* variant: the handler continues on every settlement, not only the first
SettlesRaceEveryTime(r) == TRUE

\* Promise.race: only the first settlement resumes the handler
SettlesRace(r) == raceWinner[r] = "none"

\* Promise.race subscribes to both promises when it is created
HandlerAttached(r) == reqPc[r] # "none"

\* the handler up to its await: validation, processingPromise, the timer
ReceiveUpload(r) ==
    /\ reqPc[r] = "none" /\ \A q \in 1..(r - 1) : reqPc[q] # "none"
    /\ \E file \in {"ok", "missing", "empty", "tooLarge", "emptyBuffer"} :
        IF file = "ok"
        THEN /\ reqPc' = [reqPc EXCEPT ![r] = "racing"]
             /\ processing' = [processing EXCEPT ![r] = "pending"]
             /\ timer' = [timer EXCEPT ![r] = "armed"]
             /\ UNCHANGED responses
        ELSE /\ reqPc' = [reqPc EXCEPT ![r] = "responded"]
             /\ responses' = [responses EXCEPT
                                ![r] = Append(@, ErrorHandler(ValidationErrors[file]))]
             /\ UNCHANGED <<processing, timer>>
    /\ UNCHANGED <<processingError, raceWinner, unhandled>>
    /\ UNCHANGED notUploadVars

\* processingPromise settles; if it is first the handler resumes and answers
ProcessingSettles(r) ==
    /\ processing[r] = "pending"
    /\ \E ok \in BOOLEAN, err \in ProcessingErrors :
        /\ processing' = [processing EXCEPT ![r] = IF ok THEN "resolved" ELSE "rejected"]
        /\ processingError' = [processingError EXCEPT ![r] = IF ok THEN NoError ELSE err]
        /\ unhandled' = IF ~ok /\ ~HandlerAttached(r) THEN unhandled \cup {r} ELSE unhandled
        /\ IF SettlesRace(r)
           THEN /\ raceWinner' = [raceWinner EXCEPT ![r] = IF @ = "none" THEN "processing" ELSE @]
                /\ reqPc' = [reqPc EXCEPT ![r] = "responded"]
                /\ responses' = [responses EXCEPT
                      ![r] = Append(@, IF ok THEN OkResponse ELSE ErrorHandler(err))]
           ELSE UNCHANGED <<raceWinner, reqPc, responses>>
    /\ UNCHANGED timer
    /\ UNCHANGED notUploadVars

\* the timer, which nothing clears, fires and rejects timeoutPromise
TimerFires(r) ==
    /\ timer[r] = "armed"
    /\ timer' = [timer EXCEPT ![r] = "fired"]
    /\ unhandled' = IF ~HandlerAttached(r) THEN unhandled \cup {r} ELSE unhandled
    /\ IF SettlesRace(r)
       THEN /\ raceWinner' = [raceWinner EXCEPT ![r] = IF @ = "none" THEN "timer" ELSE @]
            /\ reqPc' = [reqPc EXCEPT ![r] = "responded"]
            /\ responses' = [responses EXCEPT
                  ![r] = Append(@, ErrorHandler(CreateError(504, "SCAN_TIMEOUT")))]
       ELSE UNCHANGED <<raceWinner, reqPc, responses>>
    /\ UNCHANGED <<processing, processingError>>
    /\ UNCHANGED notUploadVars

NextUpload ==
    \/ \E r \in Requests : ReceiveUpload(r)
    \/ \E r \in Requests : ProcessingSettles(r)
    \/ \E r \in Requests : TimerFires(r)

SpecUpload == InitUpload /\ [][NextUpload]_vars

(***************************************************************************)
(* Properties of the upload route                                          *)
(***************************************************************************)
\* C10: a request never has two responses and has one as soon as its
\* handler is through; a race won by processing is answered with the result
\* (or with processing's own error), a race won by the timer with 504
\* SCAN_TIMEOUT; no promise rejects unhandled.
C10_ExactlyOneResponse ==
    /\ unhandled = {}
    /\ \A r \in Requests :
        /\ Len(responses[r]) <= 1
        /\ Len(responses[r]) = 1 <=> reqPc[r] = "responded"
        /\ reqPc[r] = "racing" => timer[r] = "armed" /\ processing[r] = "pending"
        /\ raceWinner[r] = "timer" =>
              responses[r] = <<[status |-> 504, code |-> "SCAN_TIMEOUT"]>>
        /\ (raceWinner[r] = "processing" /\ processing[r] = "resolved") =>
              responses[r] = <<OkResponse>>
        /\ (raceWinner[r] = "processing" /\ processing[r] = "rejected") =>
              responses[r] = <<[status |-> processingError[r].statusCode,
                                code |-> processingError[r].code]>>

\* C10 witness: the timer answered a request and its processing settled
\* afterwards, with still one response.
C10_Witness ==
    \E r \in Requests :
        /\ raceWinner[r] = "timer"
        /\ processing[r] \in {"resolved", "rejected"}
        /\ Len(responses[r]) = 1

(***************************************************************************)
(* Line parsers called on one line                                         *)
(***************************************************************************)
InitLine ==
    /\ callFn = "none" /\ callIn \in LineInputs /\ callOut = NoItem
    /\ ParseIdle /\ OcrIdle /\ PipeIdle /\ ScannerIdle /\ UploadIdle

\* server: reconstructReceiptLine(line, line)
CallReconstructReceiptLine ==
    /\ callFn = "none"
    /\ callFn' = "reconstructReceiptLine"
    /\ callOut' = ReconstructReceiptLine(callIn)
    /\ UNCHANGED callIn
    /\ UNCHANGED notCallVars

\* client: parseLineItem(line)
CallParseLineItem ==
    /\ callFn = "none"
    /\ callFn' = "parseLineItem"
    /\ callOut' = ParseLineItem(callIn)
    /\ UNCHANGED callIn
    /\ UNCHANGED notCallVars

NextLine == CallReconstructReceiptLine \/ CallParseLineItem

SpecLine == InitLine /\ [][NextLine]_vars

(***************************************************************************)
(* Properties of the line parsers                                          *)
(***************************************************************************)
\* a line with a name of valid length and `n` money tokens, all above zero
WellFormedLine(n) ==
    /\ NameLength(callIn.name) >= 2
    /\ Len(callIn.prices) = n
    /\ \A k \in 1..n : callIn.prices[k] > 0

\* C14: for a line with a leading quantity q > 1 and two money tokens where
\* q x first differs from the last by more than two cents, the parser
\* returns an item with unit price = first token, line total = last token,
\* needsReview = true and a quantity-mismatch review reason.
C14_MismatchFlaggedNotSwapped ==
    (/\ callFn # "none" /\ callIn.hasQty /\ callIn.qty > 1 /\ WellFormedLine(2)
     /\ Abs(callIn.qty * callIn.prices[1] - callIn.prices[2]) > 2) =>
        /\ callOut # NoItem
        /\ callOut.unitPrice = Cents(callIn.prices[1])
        /\ callOut.lineTotal = callIn.prices[2]
        /\ "needsReview" \in DOMAIN callOut
        /\ callOut.needsReview
        /\ HasReason(callOut, "quantity_mismatch")

\* C15: for a line with a leading quantity 2 <= q <= 10, a name and two money
\* tokens u, t with |q x u - t| <= 0.02, reconstructReceiptLine returns
\* quantity q, the name, unit price u, line total t, confidence 0.8, no
\* review reasons and needsReview = false; it never returns a confidence
\* above 0.8.
C15_WellFormedLineReconstructed ==
    callFn = "reconstructReceiptLine" =>
        /\ callOut # NoItem => callOut.confidence <= 80
        /\ (/\ callIn.hasQty /\ callIn.qty >= 2 /\ callIn.qty <= 10 /\ WellFormedLine(2)
            /\ Abs(callIn.qty * callIn.prices[1] - callIn.prices[2]) <= 2) =>
              /\ callOut # NoItem
              /\ callOut.quantity = callIn.qty
              /\ callOut.itemName = callIn.name
              /\ callOut.unitPrice = Cents(callIn.prices[1])
              /\ callOut.lineTotal = callIn.prices[2]
              /\ callOut.confidence = 80
              /\ callOut.reviewReasons = <<>>
              /\ ~callOut.needsReview

(***************************************************************************)
(* Sanity check and auto-correction called on one item                     *)
(***************************************************************************)
\* line totals of the item checked: 2.99, 9.50, 29.95, 95.00, 529.95, 1005.00
CorrectValues == {299, 950, 2995, 9500, 52995, 100500}

\* line totals of the other items of the receipt
SiblingTotals == {500, 800, 950, 1100, 2995}

ContextOf(totals) ==
    [items |-> [i \in 1..Len(totals) |->
                    [lineTotal |-> totals[i], quantity |-> 1, unitPrice |-> NullPrice]],
     receiptTotal |-> 0]

CorrectInputs ==
    { [item |-> [quantity |-> 1, itemName |-> name, unitPrice |-> NullPrice,
                 lineTotal |-> v],
       context |-> ContextOf(totals)] :
        name \in {"Burger", "Widget"}, v \in CorrectValues,
        totals \in BoundedSeq(SiblingTotals, MaxLines) }

InitCorrect ==
    /\ callFn = "none" /\ callIn \in CorrectInputs /\ callOut = NoItem
    /\ ParseIdle /\ OcrIdle /\ PipeIdle /\ ScannerIdle /\ UploadIdle

\* checkReceiptItemSanity(item, context)
CallCheckReceiptItemSanity ==
    /\ callFn = "none"
    /\ callFn' = "checkReceiptItemSanity"
    /\ callOut' = CheckReceiptItemSanity(callIn.item, callIn.context)
    /\ UNCHANGED callIn
    /\ UNCHANGED notCallVars

\* autoCorrectAmount(item.lineTotal, context)
CallAutoCorrectAmount ==
    /\ callFn = "none"
    /\ callFn' = "autoCorrectAmount"
    /\ callOut' = AutoCorrectAmount(callIn.item.lineTotal, callIn.context)
    /\ UNCHANGED callIn
    /\ UNCHANGED notCallVars

NextCorrect == CallCheckReceiptItemSanity \/ CallAutoCorrectAmount

SpecCorrect == InitCorrect /\ [][NextCorrect]_vars

(***************************************************************************)
(* Properties of the sanity check and the auto-correction                  *)
(***************************************************************************)
\* v lies between the smallest and the largest of the totals
InRange(v, totals) ==
    \E i, j \in 1..Len(totals) : totals[i].lineTotal <= v /\ v <= totals[j].lineTotal

\* the total is above every sibling, and without its first digit, or with
\* the decimal point one place to the left (95.00 against 9.50), it is in
\* the siblings' range
InflatedByLeadingDigit(value, totals) ==
    /\ totals # <<>>
    /\ value > MaxTotal(totals)
    /\ InRange(WithoutFirstDigit(value), totals) \/ InRange(value \div 10, totals)

\* C16: a food item whose total is inflated by an extra leading digit
\* relative to its siblings is flagged needsReview by the sanity check and
\* gets an extra-digit correction proposal with a value in the siblings' range.
C16_InflatedItemGetsProposal ==
    LET value  == callIn.item.lineTotal
        others == OtherItems(callIn.context, value)
    IN  (/\ callFn \in {"checkReceiptItemSanity", "autoCorrectAmount"}
         /\ IsFoodItem(callIn.item.itemName)
         /\ InflatedByLeadingDigit(value, others)) =>
            /\ callFn = "checkReceiptItemSanity" => callOut.needsReview
            /\ callFn = "autoCorrectAmount" =>
                  /\ callOut.corrected
                  /\ callOut.correctionType = "extra_digit"
                  /\ InRange(callOut.correctedValue, others)

LineTokens == {"Pie", "Ix", "to", "A", "B2", "4-50", "4.50", "12", "AUD", "(AUD)", "AU$"}

\* tokens per line
MaxTokens == 3

\* [a-z]{1,2} (case-insensitive): a token of one or two letters
IsShortLetters(tok) == tok \in {"to", "A", "Ix"}

\* [A-Z]\d+
IsLetterDigits(tok) == tok \in {"B2"}

\* \b(\d{1,2}) at the end of the token
EndsWithDigits(tok) == tok \in {"12", "4.50"}

ReplaceTokens(toks, from, to) ==
    [i \in 1..Len(toks) |-> IF toks[i] = from THEN to ELSE toks[i]]

Occurrences(toks, tok) == Len(SelectSeq(toks, LAMBDA t : t = tok))

DropLast(toks) == SubSeq(toks, 1, Len(toks) - 1)

Step(n, c) == [n |-> n, c |-> c]

\* Step 1: \b[Ii]x\b -> 1x
FixQuantityTokens(st) ==
    IF Occurrences(st.n, "Ix") > 0
    THEN Step(ReplaceTokens(st.n, "Ix", "1x"), Append(st.c, "Ix -> 1x"))
    ELSE st

\* Step 2: \b(\d{1,3})-(\d{2})\b -> $1.$2, one change per match
FixHyphenDecimals(st) ==
    Step(ReplaceTokens(st.n, "4-50", "4.50"),
         st.c \o [i \in 1..Occurrences(st.n, "4-50") |-> "4-50 -> 4.50"])

\* server step 3: digits followed by a last token gg, or, aa or a (any case):
\* the token is removed
FixMissingCents(st) ==
    IF /\ Len(st.n) >= 2 /\ st.n[Len(st.n)] = "A" /\ EndsWithDigits(st.n[Len(st.n) - 1])
    THEN Step(DropLast(st.n), Append(st.c, "Removed garbage suffix"))
    ELSE st

\* first garbage pattern, \s+[a-z]{1,2}\s*$ (case-insensitive): removes a last
\* token of one or two letters that is not the only token
RemoveTrailingLetters(st) ==
    IF Len(st.n) >= 2 /\ IsShortLetters(st.n[Len(st.n)])
    THEN Step(DropLast(st.n), Append(st.c, "Removed trailing garbage"))
    ELSE st

\* third garbage pattern, \s+[A-Z]\d+\s*$
RemoveTrailingLetterDigits(st) ==
    IF Len(st.n) >= 2 /\ IsLetterDigits(st.n[Len(st.n)])
    THEN Step(DropLast(st.n), Append(st.c, "Removed trailing garbage"))
    ELSE st

\* the garbage patterns in order, each applied once; the second and the
\* fourth match no line of these tokens
RemoveTrailingGarbage(st) == RemoveTrailingLetterDigits(RemoveTrailingLetters(st))

\* strip tax code: \s+A\s*$; the change is recorded when the original ends
\* with " A"
StripTaxCode(st, original) ==
    LET n == IF Len(st.n) >= 2 /\ st.n[Len(st.n)] = "A" THEN DropLast(st.n) ELSE st.n
    IN  Step(n, IF n # original /\ Len(original) >= 2 /\ original[Len(original)] = "A"
                THEN Append(st.c, "Removed tax code") ELSE st.c)

\* client step 5: AU$ -> $, then \b(AUD|USD|NZD)\b -> '' (which leaves the
\* parentheses of "(AUD)" behind), then \((AUD|USD|NZD)\) -> ''
NormalizeCurrencyTokens(st) ==
    LET a == ReplaceTokens(st.n, "AU$", "$")
        b == ReplaceTokens(SelectSeq(a, LAMBDA t : t # "AUD"), "(AUD)", "()")
    IN  Step(b, IF b # st.n THEN Append(st.c, "Normalized currency tokens") ELSE st.c)

Normalized(st) == [normalized |-> st.n, changes |-> st.c]

\* server normalizeOcrLine
NormalizeOcrLineServer(toks) ==
    Normalized(StripTaxCode(RemoveTrailingGarbage(FixMissingCents(
        FixHyphenDecimals(FixQuantityTokens(Step(toks, <<>>))))), toks))

\* client normalizeOcrLine
NormalizeOcrLineClient(toks) ==
    Normalized(NormalizeCurrencyTokens(StripTaxCode(RemoveTrailingGarbage(
        FixHyphenDecimals(FixQuantityTokens(Step(toks, <<>>)))), toks)))

InitNormalize ==
    /\ callFn = "none" /\ callIn \in BoundedSeq(LineTokens, MaxTokens) /\ callOut = NoItem
    /\ ParseIdle /\ OcrIdle /\ PipeIdle /\ ScannerIdle /\ UploadIdle

\* normalizeOcrLine(line) of the server, then of its result
CallNormalizeServer ==
    /\ callFn = "none"
    /\ callFn' = "normalizeOcrLineServer"
    /\ callOut' = [first |-> NormalizeOcrLineServer(callIn),
                   again |-> NormalizeOcrLineServer(NormalizeOcrLineServer(callIn).normalized)]
    /\ UNCHANGED callIn
    /\ UNCHANGED notCallVars

\* normalizeOcrLine(line) of the client, then of its result
CallNormalizeClient ==
    /\ callFn = "none"
    /\ callFn' = "normalizeOcrLineClient"
    /\ callOut' = [first |-> NormalizeOcrLineClient(callIn),
                   again |-> NormalizeOcrLineClient(NormalizeOcrLineClient(callIn).normalized)]
    /\ UNCHANGED callIn
    /\ UNCHANGED notCallVars

NextNormalize == CallNormalizeServer \/ CallNormalizeClient

SpecNormalize == InitNormalize /\ [][NextNormalize]_vars

(***************************************************************************)
(* Properties of the normalizers                                           *)
(***************************************************************************)
\* C18: normalizing a normalized line returns the same line and records no
\* changes.
C18_NormalizeIdempotent ==
    callFn \in {"normalizeOcrLineServer", "normalizeOcrLineClient"} =>
        /\ callOut.again.normalized = callOut.first.normalized
        /\ callOut.again.changes = <<>>

\* C19: the client and the server normalizer return the same normalized
\* line, and neither result holds a currency token.
C19_NormalizersAgree ==
    callFn \in {"normalizeOcrLineServer", "normalizeOcrLineClient"} =>
        /\ NormalizeOcrLineServer(callIn).normalized
              = NormalizeOcrLineClient(callIn).normalized
        /\ \A i \in 1..Len(callOut.first.normalized) :
              callOut.first.normalized[i] \notin {"AUD", "(AUD)", "AU$"}

(***************************************************************************)
(* OCR result scoring.  The text of a result is held as its lines: item    *)
(* lines like "2x Coffee 3.50 7.00", keyword lines like "CASH" (a          *)
(* different keyword on each) and garbage lines like "@@##".  Scores are   *)
(* in tenths of a point, confidences in hundredths.                        *)
(***************************************************************************)
\* OCR results scored in one call
MaxCandidates == 2

OcrTexts ==
    [itemLines : {0, 1, 3}, keywordLines : {0, 1}, garbageLines : {0, 2}]

ScoredConfidences == {30, 90}

\* results in source order; `source` is the position in the array
CandidateLists ==
    UNION { { [i \in 1..n |-> [text |-> t[i], confidence |-> c[i], source |-> i]] :
                t \in [1..n -> OcrTexts], c \in [1..n -> ScoredConfidences] } :
            n \in 0..MaxCandidates }

\* calculateScore(result).total
CalculateScore(result) ==
    LET i        == result.text.itemLines
        k        == result.text.keywordLines
        g        == result.text.garbageLines
        n        == i + k + g
        \* text.length: 19, 4 and 4 characters a line, and the newlines
        length   == 19 * i + 4 * k + 4 * g + (IF n > 0 THEN n - 1 ELSE 0)
        alnum    == 14 * i + 4 * k
        total    == 16 * i + 4 * k + 4 * g
        points   == 20 * i                              \* quantity and price
                    + 10 * k                            \* receipt keywords
                    + 5 * i                             \* letters and numbers
                    + (IF n > 0 THEN Min2(2 * n, 40) ELSE 0)
                    + (IF i >= 3 THEN 10 ELSE 0)        \* three price lines
                    - (IF length < 50 THEN 20 ELSE 0)
                    - (IF total > 0 /\ 2 * alnum < total THEN 30 ELSE 0)
    IN  Max2(0, 10 * points + result.confidence)

\* Array.prototype.sort((a, b) => b.score - a.score), which is stable: x goes
\* behind every element whose score is not lower
RECURSIVE InsertByScore(_, _)
InsertByScore(x, sorted) ==
    IF sorted = <<>> \/ Head(sorted).score < x.score
    THEN <<x>> \o sorted
    ELSE <<Head(sorted)>> \o InsertByScore(x, Tail(sorted))

RECURSIVE SortByScore(_, _)
SortByScore(rest, sorted) ==
    IF rest = <<>> THEN sorted
    ELSE SortByScore(Tail(rest), InsertByScore(Head(rest), sorted))

\* scoreOCRResults(results)
ScoreOCRResults(results) ==
    SortByScore([i \in 1..Len(results) |->
                    [result |-> results[i], score |-> CalculateScore(results[i])]], <<>>)

\* selectBestOCRResult(scoredResults)
SelectBestOCRResult(scored) == IF scored = <<>> THEN NoResult ELSE scored[1]

InitScore ==
    /\ callFn = "none" /\ callIn \in CandidateLists /\ callOut = NoItem
    /\ ParseIdle /\ OcrIdle /\ PipeIdle /\ ScannerIdle /\ UploadIdle

\* selectBestOCRResult(scoreOCRResults(ocrResults))
CallSelectBest ==
    /\ callFn = "none"
    /\ callFn' = "selectBestOCRResult"
    /\ callOut' = SelectBestOCRResult(ScoreOCRResults(callIn))
    /\ UNCHANGED callIn
    /\ UNCHANGED notCallVars

NextScore == CallSelectBest

SpecScore == InitScore /\ [][NextScore]_vars

(***************************************************************************)
(* Properties of the scorer                                                *)
(***************************************************************************)
\* C20: the selected candidate has the maximum score; among candidates of
\* that score it has the highest confidence; among those equal in both it is
\* the earliest in source order.
C20_BestByScoreConfidenceOrder ==
    (callFn = "selectBestOCRResult" /\ callIn # <<>>) =>
        /\ callOut # NoResult
        /\ \A j \in 1..Len(callIn) :
            LET sj == CalculateScore(callIn[j])
            IN  /\ sj <= callOut.score
                /\ sj = callOut.score =>
                      /\ callIn[j].confidence <= callOut.result.confidence
                      /\ callIn[j].confidence = callOut.result.confidence =>
                            callOut.result.source <= j

(***************************************************************************)
(* Overall receipt confidence.  A confidence is held as the fraction       *)
(* num/den: with n items whose confidences (hundredths) sum to s, the mean *)
(* times 0.5 is s / (200 n).  The receipt total is in cents, 0 = undefined.*)
(***************************************************************************)
\* items of a receipt handed to one confidence computation
MaxItems == 2

ScoredItems == [confidence : {0, 60, 100}, lineTotal : {200, 500}]

ConfidenceInputs ==
    [items : BoundedSeq(ScoredItems, MaxItems),
     total : {0, 500, 700, 900},
     ocrConfidence : {30, 90}]

RECURSIVE SumConfidence(_)
SumConfidence(s) == IF s = <<>> THEN 0 ELSE Head(s).confidence + SumConfidence(Tail(s))

\* the four terms before Math.min(1, ...), over 200 * max(n, 1)
WeightedConfidence(its, total) ==
    LET n            == Len(its)
        d            == IF n > 0 THEN n ELSE 1
        hasTotal     == total # 0
        totalMatches == hasTotal /\ Abs(SumTotals(its) - total) < 200
        flags        == (IF n > 0 THEN 20 ELSE 0)
                        + (IF hasTotal THEN 15 ELSE 0)
                        + (IF totalMatches THEN 15 ELSE 0)
    IN  [num |-> SumConfidence(its) + 2 * d * flags, den |-> 200 * d]

\* parseReceipt returns `confidence: ocrConfidence`
EngineConfidence(its, total, ocr) == [num |-> ocr, den |-> 100]

\* const confidence = Math.min(1, (...))
OverallConfidence(its, total, ocr) ==
    LET w == WeightedConfidence(its, total)
    IN  [num |-> Min2(w.num, w.den), den |-> w.den]

InitConfidence ==
    /\ callFn = "none" /\ callIn \in ConfidenceInputs /\ callOut = NoItem
    /\ ParseIdle /\ OcrIdle /\ PipeIdle /\ ScannerIdle /\ UploadIdle

\* the confidence of the receipt the server scanReceipt returns
CallScanReceiptConfidence ==
    /\ callFn = "none"
    /\ callFn' = "scanReceipt"
    /\ callOut' = OverallConfidence(callIn.items, callIn.total, callIn.ocrConfidence)
    /\ UNCHANGED callIn
    /\ UNCHANGED notCallVars

\* the confidence of the receipt the client scanReceipt returns: that of
\* parseReceiptText, which throws as soon as a line gives an item, and then
\* `confidence: bestResult.result.confidence || 0` of the catch around it
ClientConfidence(its, total, ocr) ==
    IF its # <<>> THEN EngineConfidence(its, total, ocr)
    ELSE OverallConfidence(its, total, ocr)

CallParseReceiptTextConfidence ==
    /\ callFn = "none"
    /\ callFn' = "parseReceiptText"
    /\ callOut' = ClientConfidence(callIn.items, callIn.total, callIn.ocrConfidence)
    /\ UNCHANGED callIn
    /\ UNCHANGED notCallVars

\* the confidence of the receipt the server parseReceipt returns
CallParseReceiptConfidence ==
    /\ callFn = "none"
    /\ callFn' = "parseReceipt"
    /\ callOut' = EngineConfidence(callIn.items, callIn.total, callIn.ocrConfidence)
    /\ UNCHANGED callIn
    /\ UNCHANGED notCallVars

NextConfidence ==
    \/ CallScanReceiptConfidence
    \/ CallParseReceiptTextConfidence
    \/ CallParseReceiptConfidence

SpecConfidence == InitConfidence /\ [][NextConfidence]_vars

(***************************************************************************)
(* Properties of the overall confidence                                    *)
(***************************************************************************)
\* C21: the confidence every pipeline returns equals 0.5 * mean item
\* confidence + 0.2 if there is an item + 0.15 if there is a total + 0.15 if
\* the item sum is within 2 of the total, and lies in [0, 1].
C21_ConfidenceIsWeightedSum ==
    callFn \in {"scanReceipt", "parseReceiptText", "parseReceipt"} =>
        LET w == WeightedConfidence(callIn.items, callIn.total)
        IN  /\ callOut.num * w.den = w.num * callOut.den
            /\ 0 <= callOut.num /\ callOut.num <= callOut.den

(***************************************************************************)
(* Document croppers.  An image buffer is held as what sharp reports for   *)
(* it: whether it decodes at all, and its width and height.  The sharp     *)
(* operations that may reject for a decodable image are inputs of the      *)
(* call: faults.crop is the extract/resize/encode chain of the smart crop, *)
(* faults.resize the plain resize of the working image that replaces it,   *)
(* faults.final the resize of the original buffer in the last catch.       *)
(* Confidences are in hundredths.  detectWithOpenCV always throws and its  *)
(* call sits in a try of its own, so it never changes the outcome.         *)
(***************************************************************************)
Images == [readable : BOOLEAN, width : {0, 800, 3000}, height : {0, 1000}]

CropFaults == [crop : BOOLEAN, resize : BOOLEAN, final : BOOLEAN]

CropInputs == [image : Images, faults : CropFaults]

Cropped(strategy, confidence) ==
    [threw |-> FALSE, error |-> NoError, strategy |-> strategy,
     documentDetected |-> FALSE, confidence |-> confidence]

CropThrew(err) ==
    [threw |-> TRUE, error |-> err, strategy |-> "none",
     documentDetected |-> FALSE, confidence |-> 0]

\* what a sharp operation rejects with: an Error without statusCode
SharpError == CreateError(0, "SHARP")

InvalidDimensions == CreateError(400, "INVALID_IMAGE_DIMENSIONS")

\* smartCropForThermalReceipt / smartCropFallback: the center crop, in its
\* catch the resized working image, whose failure leaves the function
SmartCrop(faults, cropConfidence) ==
    IF ~faults.crop THEN Cropped("center_crop", cropConfidence)
    ELSE IF ~faults.resize THEN Cropped("fallback", 30)
    ELSE CropThrew(SharpError)

\* the try block: metadata, the dimension test, the smart crop
CropAttempt(in, cropConfidence) ==
    IF ~in.image.readable THEN CropThrew(SharpError)
    ELSE IF in.image.width = 0 \/ in.image.height = 0 THEN CropThrew(InvalidDimensions)
    ELSE SmartCrop(in.faults, cropConfidence)

\* detectAndCropReceipt: the catch rethrows an error that has a statusCode,
\* otherwise resizes and encodes the original buffer
DetectAndCropReceipt(in) ==
    LET attempt == CropAttempt(in, 65)
    IN  IF ~attempt.threw THEN attempt
        ELSE IF attempt.error.statusCode # 0 THEN attempt
        ELSE IF ~in.image.readable \/ in.faults.final THEN CropThrew(SharpError)
        ELSE Cropped("fallback", 30)

\* detectAndCropDocument: the catch rethrows an error that has a statusCode,
\* otherwise returns the original buffer with its metadata read again
DetectAndCropDocument(in) ==
    LET attempt == CropAttempt(in, 60)
    IN  IF ~attempt.threw THEN attempt
        ELSE IF attempt.error.statusCode # 0 THEN attempt
        ELSE IF ~in.image.readable THEN CropThrew(SharpError)
        ELSE Cropped("fallback", 0)

InitCrop ==
    /\ callFn = "none" /\ callIn \in CropInputs /\ callOut = NoItem
    /\ ParseIdle /\ OcrIdle /\ PipeIdle /\ ScannerIdle /\ UploadIdle

CallDetectAndCropReceipt ==
    /\ callFn = "none"
    /\ callFn' = "detectAndCropReceipt"
    /\ callOut' = DetectAndCropReceipt(callIn)
    /\ UNCHANGED callIn
    /\ UNCHANGED notCallVars

CallDetectAndCropDocument ==
    /\ callFn = "none"
    /\ callFn' = "detectAndCropDocument"
    /\ callOut' = DetectAndCropDocument(callIn)
    /\ UNCHANGED callIn
    /\ UNCHANGED notCallVars

NextCrop == CallDetectAndCropReceipt \/ CallDetectAndCropDocument

SpecCrop == InitCrop /\ [][NextCrop]_vars

(***************************************************************************)
(* Properties of the croppers                                              *)
(***************************************************************************)
\* an operation of the detection or of the smart crop failed
CropFailed(in) ==
    \/ ~in.image.readable
    \/ in.image.width = 0 \/ in.image.height = 0
    \/ in.faults.crop

\* C22: when detection or cropping fails, the cropper does not throw and
\* returns strategy fallback, documentDetected false and confidence 0.
C22_FailureYieldsFallback ==
    (callFn \in {"detectAndCropReceipt", "detectAndCropDocument"} /\ CropFailed(callIn)) =>
        /\ ~callOut.threw
        /\ callOut.strategy = "fallback"
        /\ ~callOut.documentDetected
        /\ callOut.confidence = 0

(***************************************************************************)
(* Repeated parsing of one OCR text.  generateId() is                      *)
(* Math.random().toString(36).substring(2, 9): every call draws a value    *)
(* the caller does not control.  A parse makes one draw per item, in line  *)
(* order, and the server entry points one more for the receipt.            *)
(***************************************************************************)
\* invocations on the same text
MaxInvocations == 2

RandomIds == {"k3f9x2a", "p0q8z1m"}

RepeatedLines ==
    { Line(TRUE, 2, "Coffee", <<350, 700>>),        \* "2x Coffee 3.50 7.00"
      Line(FALSE, 1, "Total", <<>>) }               \* no price: not an item

RepeatedInputs ==
    [lines : BoundedSeq(RepeatedLines, MaxItems), ocrConfidence : {50}]

\* items.push({ id: generateId(), ... }) / item_id: generateId()
WithIds(its, draws) == [i \in 1..Len(its) |-> [id |-> draws[i], item |-> its[i]]]

Parsed(its, receiptId) == [threw |-> FALSE, id |-> receiptId, items |-> its]

ParseThrew == [threw |-> TRUE, id |-> "", items |-> <<>>]

\* server scanReceipt: receipt: { id: generateId(), items: items.map(...) }
ScanReceiptOutput(in, draws) ==
    LET its == WithIds(ScanReceiptItems(in.lines), draws)
    IN  Parsed(its, draws[Len(its) + 1])

\* processReceiptUpload over parseReceipt: the ids are drawn in the item
\* loop, before the validItems filter
ParseReceiptOutput(in, draws) ==
    LET its == WithIds(ParseReceiptItems(in.lines, in.ocrConfidence), draws)
    IN  Parsed(SelectSeq(its, LAMBDA x : IsValidItem(x.item)), draws[Len(its) + 1])

\* client parseReceiptText: throws on the first accepted line, before any
\* item is kept; its result has no id of its own
ParseReceiptTextOutput(in, draws) ==
    IF \E i \in 1..Len(in.lines) : ParseLineItem(in.lines[i]) # NoItem
    THEN ParseThrew ELSE Parsed(<<>>, "")

InitRepeat ==
    /\ callFn = "none" /\ callIn \in RepeatedInputs /\ callOut = <<>>
    /\ ParseIdle /\ OcrIdle /\ PipeIdle /\ ScannerIdle /\ UploadIdle

\* callOut collects the outputs of the invocations of callFn on callIn
Invoke(fn, out) ==
    /\ callFn \in {"none", fn}
    /\ Len(callOut) < MaxInvocations
    /\ callFn' = fn
    /\ callOut' = Append(callOut, out)
    /\ UNCHANGED callIn
    /\ UNCHANGED notCallVars

InvokeScanReceipt ==
    \E draws \in [1..(Len(callIn.lines) + 1) -> RandomIds] :
        Invoke("scanReceipt", ScanReceiptOutput(callIn, draws))

InvokeParseReceipt ==
    \E draws \in [1..(Len(callIn.lines) + 1) -> RandomIds] :
        Invoke("parseReceipt", ParseReceiptOutput(callIn, draws))

InvokeParseReceiptText ==
    \E draws \in [1..(Len(callIn.lines) + 1) -> RandomIds] :
        Invoke("parseReceiptText", ParseReceiptTextOutput(callIn, draws))

NextRepeat == InvokeScanReceipt \/ InvokeParseReceipt \/ InvokeParseReceiptText

SpecRepeat == InitRepeat /\ [][NextRepeat]_vars

(***************************************************************************)
(* Properties of repeated parsing                                          *)
(***************************************************************************)
\* C23: invocations on the same OCR text return the same output, the ids of
\* the receipt and of every item included.
C23_ParsingDeterministic ==
    callFn \in {"scanReceipt", "parseReceipt", "parseReceiptText"} =>
        \A i, j \in 1..Len(callOut) : callOut[i] = callOut[j]

(***************************************************************************)
(* Settlement (generateTransfers).  Participants are 1..MaxParticipants in *)
(* participantOrder; netByPerson holds integer minor units and sums to     *)
(* zero.  callOut is the frame of the call: the creditors and debtors      *)
(* arrays, the loop indices (1-based), and the transfers pushed so far.    *)
(***************************************************************************)
MaxParticipants == 3

\* largest absolute net balance
MaxBalance == 3

Participants == 1..MaxParticipants

RECURSIVE SumNet(_, _)
SumNet(net, n) == IF n = 0 THEN 0 ELSE net[n] + SumNet(net, n - 1)

NetBalances ==
    { net \in [Participants -> (0 - MaxBalance)..MaxBalance] :
        SumNet(net, MaxParticipants) = 0 }

\* participantOrder.map(id => ({ id, amount })).filter(p => p.amount > 0)
PositiveEntries(amountOf) ==
    SelectSeq([p \in Participants |-> [id |-> p, amount |-> amountOf[p]]],
              LAMBDA e : e.amount > 0)

\* const pay = Math.min(debtors[i].amount, creditors[j].amount)
PayAllOwed(owed, due) == owed

Pay(owed, due) == Min2(owed, due)

InitSettle ==
    /\ callFn = "none" /\ callIn \in NetBalances /\ callOut = NoItem
    /\ ParseIdle /\ OcrIdle /\ PipeIdle /\ ScannerIdle /\ UploadIdle

\* generateTransfers up to the while loop
CallGenerateTransfers ==
    /\ callFn = "none"
    /\ callFn' = "generateTransfers"
    /\ callOut' = [creditors |-> PositiveEntries(callIn),
                   debtors   |-> PositiveEntries([p \in Participants |-> 0 - callIn[p]]),
                   i |-> 1, j |-> 1, transfers |-> <<>>, returned |-> FALSE]
    /\ UNCHANGED callIn
    /\ UNCHANGED notCallVars

LoopCondition(f) == f.i <= Len(f.debtors) /\ f.j <= Len(f.creditors)

\* one iteration of the while loop
TransferStep ==
    /\ callFn = "generateTransfers" /\ ~callOut.returned
    /\ LoopCondition(callOut)
    /\ LET f    == callOut
           pay  == Pay(f.debtors[f.i].amount, f.creditors[f.j].amount)
           owed == f.debtors[f.i].amount - pay
           due  == f.creditors[f.j].amount - pay
       IN  callOut' =
             [f EXCEPT !.transfers = Append(@, [fromId |-> f.debtors[f.i].id,
                                                toId |-> f.creditors[f.j].id,
                                                amountMinor |-> pay]),
                       !.debtors[f.i].amount = owed,
                       !.creditors[f.j].amount = due,
                       !.i = IF owed = 0 THEN @ + 1 ELSE @,
                       !.j = IF due = 0 THEN @ + 1 ELSE @]
    /\ UNCHANGED <<callIn, callFn>>
    /\ UNCHANGED notCallVars

\* the loop condition fails: return transfers
ReturnTransfers ==
    /\ callFn = "generateTransfers" /\ ~callOut.returned
    /\ ~LoopCondition(callOut)
    /\ callOut' = [callOut EXCEPT !.returned = TRUE]
    /\ UNCHANGED <<callIn, callFn>>
    /\ UNCHANGED notCallVars

NextSettle == CallGenerateTransfers \/ TransferStep \/ ReturnTransfers

\* the call is made and the loop runs to its end: nothing else is scheduled
SpecSettle == InitSettle /\ [][NextSettle]_vars /\ WF_vars(NextSettle)

(***************************************************************************)
(* Properties of the settlement                                            *)
(***************************************************************************)
RECURSIVE SumTransfers(_, _, _)
SumTransfers(ts, field, p) ==
    IF ts = <<>> THEN 0
    ELSE (IF Head(ts)[field] = p THEN Head(ts).amountMinor ELSE 0)
         + SumTransfers(Tail(ts), field, p)

TransfersReturned == callFn = "generateTransfers" /\ callOut.returned

EveryoneEven ==
    TransfersReturned =>
        /\ \A p \in Participants :
            /\ SumTransfers(callOut.transfers, "fromId", p) = Max2(0 - callIn[p], 0)
            /\ SumTransfers(callOut.transfers, "toId", p) = Max2(callIn[p], 0)
        /\ \A k \in 1..Len(callOut.transfers) : callOut.transfers[k].amountMinor > 0

\* C24: for net balances that sum to zero the loop ends, and the returned
\* transfers take from every debtor exactly what they owe, give every
\* creditor exactly what they are owed, and all have a positive amount.
C24_TransfersSettleEveryone == []EveryoneEven /\ <>TransfersReturned

C24_Witness ==
    /\ TransfersReturned
    /\ Len(callOut.transfers) >= 2
    /\ \E p \in Participants : callIn[p] < 0

(***************************************************************************)
(* Client image preprocessing (preprocessReceiptImage).  The input is the  *)
(* image as loadImage reports it and, per variant constructor, whether the *)
(* canvas operations of that constructor throw.                            *)
(***************************************************************************)
VariantFaults == [preserveColor : BOOLEAN, light : BOOLEAN, balanced : BOOLEAN]

PreprocessInputs == [image : Images, faults : VariantFaults]

Preprocessed(variants) == [threw |-> FALSE, variants |-> variants]

PreprocessThrew == [threw |-> TRUE, variants |-> <<>>]

\* a constructor inside its own try/catch: a failure is logged and skipped
TryVariant(name, fails) == IF fails THEN <<>> ELSE <<name>>

\* if (variants.length === 0) throw new Error('All preprocessing variants failed')
KeepAnyVariant(variants) ==
    IF variants = <<>> THEN PreprocessThrew ELSE Preprocessed(variants)

PreprocessReceiptImage(in) ==
    IF ~in.image.readable \/ in.image.width = 0 \/ in.image.height = 0
    THEN PreprocessThrew
    ELSE LET two   == TryVariant("preserve_color", in.faults.preserveColor)
                      \o TryVariant("light", in.faults.light)
             three == IF Len(two) >= 2
                      THEN two \o TryVariant("balanced", in.faults.balanced)
                      ELSE two
         IN  KeepAnyVariant(three)

InitPreprocess ==
    /\ callFn = "none" /\ callIn \in PreprocessInputs /\ callOut = NoItem
    /\ ParseIdle /\ OcrIdle /\ PipeIdle /\ ScannerIdle /\ UploadIdle

CallPreprocessReceiptImage ==
    /\ callFn = "none"
    /\ callFn' = "preprocessReceiptImage"
    /\ callOut' = PreprocessReceiptImage(callIn)
    /\ UNCHANGED callIn
    /\ UNCHANGED notCallVars

NextPreprocess == CallPreprocessReceiptImage

SpecPreprocess == InitPreprocess /\ [][NextPreprocess]_vars

(***************************************************************************)
(* Properties of the preprocessing                                         *)
(***************************************************************************)
\* C25: a successful preprocessing result contains the light variant, and
\* preprocessing fails when the light variant cannot be constructed.
C25_LightVariantRequired ==
    callFn = "preprocessReceiptImage" =>
        /\ ~callOut.threw =>
              \E k \in 1..Len(callOut.variants) : callOut.variants[k] = "light"
        /\ callIn.faults.light => callOut.threw

(***************************************************************************)
(* Sanity check (client copy) used by parseReceiptText                     *)
(***************************************************************************)
\* /\s+aa\s*$/i, /\s+[a-z]{1,2}\s*$/i, /[\.\-]{2,}$/, /\s+[A-Z]{1,2}\s*$/
ClientHasNameNoise(name) == name \in {"Widget aa", "Widget A", "Widget.."}

\* context.items.filter(i => i.lineTotal > 0)
ClientOtherItems(ctx) == SelectSeq(ctx.items, LAMBDA i : i.lineTotal > 0)

\* the sum of the unit prices, as a fraction
RECURSIVE SumUnitPrices(_)
SumUnitPrices(s) ==
    IF s = <<>> THEN Cents(0)
    ELSE LET u == Head(s).unitPrice
             r == SumUnitPrices(Tail(s))
         IN  [num |-> u.num * r.den + r.num * u.den, den |-> u.den * r.den]

ClientCheckItemSanity(item, ctx) ==
    LET all      == Len(ctx.items)
        others   == ClientOtherItems(ctx)
        n        == Len(others)
        sum      == SumTotals(others)
        rule1    == all > 0 /\ item.lineTotal > 0
        overMax  == rule1 /\ n > 0 /\ item.lineTotal > 2 * MaxTotal(others)
        offScale == rule1 /\ n > 0
                    /\ (item.lineTotal * n > 5 * sum \/ 5 * item.lineTotal * n < sum)
        overTotal == rule1 /\ ctx.receiptTotal # 0
                     /\ 10 * item.lineTotal > 12 * ctx.receiptTotal
        highQty  == item.quantity > 6 /\ all > 0
        mismatch == item.quantity > 1 /\ ~IsNull(item.unitPrice) /\ item.unitPrice.num > 0
                    /\ MismatchOver(item.lineTotal, item.quantity, item.unitPrice, 2)
        noise    == ClientHasNameNoise(item.itemName)
        negUnit  == ~IsNull(item.unitPrice) /\ item.unitPrice.num < 0
        priced   == SelectSeq(ctx.items, LAMBDA i : ~IsNull(i.unitPrice) /\ i.unitPrice.num > 0)
        m        == Len(priced)
        unitSum  == SumUnitPrices(priced)
        highUnit == ~IsNull(item.unitPrice) /\ item.unitPrice.num > 100000 * item.unitPrice.den
                    /\ all > 0 /\ m > 0 /\ unitSum.num > 0
                    /\ item.unitPrice.num * unitSum.den * m
                         > 10 * unitSum.num * item.unitPrice.den
        reasons  == When(overMax, Reason("much_higher_than_others"))
                    \o When(offScale, Reason("order_of_magnitude"))
                    \o When(overTotal, Reason("exceeds_receipt_total"))
                    \o When(highQty, Reason("high_quantity"))
                    \o When(mismatch, Reason("quantity_mismatch"))
                    \o When(noise, Reason("name_noise"))
                    \o When(negUnit, Reason("negative_unit_price"))
                    \o When(highUnit, Reason("unit_price_too_high"))
        conf     == MinOf(100, When(overMax, 40) \o When(offScale, 50) \o When(overTotal, 30)
                               \o When(highQty, 50) \o When(mismatch, 60) \o When(noise, 70)
                               \o When(negUnit, 30) \o When(highUnit, 40))
    IN  [isSuspicious |-> Len(reasons) > 0,
         needsReview |-> (Len(reasons) > 0 \/ conf < 60),
         reviewReasons |-> reasons,
         confidence |-> Max2(0, conf)]

(***************************************************************************)
(* The sanity functions called for item k of a receipt, with the context   *)
(* the pipelines build from all of its items.  callOut holds the           *)
(* otherItems array the function computes its statistics from, and the     *)
(* result it returns.                                                      *)
(***************************************************************************)
ReceiptItems ==
    { NewItem("Burger", 1, NullPrice, 2995, 80, FALSE, <<>>),
      NewItem("Chips", 1, NullPrice, 500, 80, FALSE, <<>>),
      NewItem("Widget", 1, NullPrice, 52995, 80, FALSE, <<>>),
      NewItem("Coffee", 2, Cents(350), 700, 80, FALSE, <<>>) }

SiblingInputs ==
    UNION { { [items |-> its, k |-> k, receiptTotal |-> t] :
                k \in 1..Len(its), t \in ReceiptTotals } :
            its \in BoundedSeq(ReceiptItems, MaxLines) }

SiblingContext(in) == BuildContext(in.items, in.receiptTotal)

CheckedItem(in) == SanityInput(in.items[in.k])

InitSiblings ==
    /\ callFn = "none" /\ callIn \in SiblingInputs /\ callOut = NoItem
    /\ ParseIdle /\ OcrIdle /\ PipeIdle /\ ScannerIdle /\ UploadIdle

SanityCall(fn, others, result) ==
    /\ callFn = "none"
    /\ callFn' = fn
    /\ callOut' = [otherItems |-> others, result |-> result]
    /\ UNCHANGED callIn
    /\ UNCHANGED notCallVars

\* scanReceipt: checkReceiptItemSanity(item, context)
SiblingsOfReceiptCheck ==
    SanityCall("checkReceiptItemSanity",
               OtherItems(SiblingContext(callIn), CheckedItem(callIn).lineTotal),
               CheckReceiptItemSanity(CheckedItem(callIn), SiblingContext(callIn)))

\* parseReceipt: checkItemSanity(item, context), server copy
SiblingsOfServerCheck ==
    SanityCall("checkItemSanityServer",
               OtherItems(SiblingContext(callIn), CheckedItem(callIn).lineTotal),
               CheckItemSanity(CheckedItem(callIn), SiblingContext(callIn)))

\* parseReceiptText: checkItemSanity(item, context), client copy
SiblingsOfClientCheck ==
    SanityCall("checkItemSanityClient",
               ClientOtherItems(SiblingContext(callIn)),
               ClientCheckItemSanity(CheckedItem(callIn), SiblingContext(callIn)))

\* autoCorrectAmount(item.totalPrice, context)
SiblingsOfAutoCorrect ==
    SanityCall("autoCorrectAmount",
               OtherItems(SiblingContext(callIn), CheckedItem(callIn).lineTotal),
               AutoCorrectAmount(CheckedItem(callIn).lineTotal, SiblingContext(callIn)))

NextSiblings ==
    \/ SiblingsOfReceiptCheck
    \/ SiblingsOfServerCheck
    \/ SiblingsOfClientCheck
    \/ SiblingsOfAutoCorrect

SpecSiblings == InitSiblings /\ [][NextSiblings]_vars

(***************************************************************************)
(* Properties of the cross-item statistics                                 *)
(***************************************************************************)
\* the context items without the one at index k
AllButItem(its, k) == SubSeq(its, 1, k - 1) \o SubSeq(its, k + 1, Len(its))

\* C26: the statistics for item k are computed over every item of the
\* receipt except item k: siblings of equal line total are included, item k
\* itself is not.
C26_StatisticsOverEveryOtherItem ==
    callFn \in {"checkReceiptItemSanity", "checkItemSanityServer",
                "checkItemSanityClient", "autoCorrectAmount"} =>
        callOut.otherItems = AllButItem(SiblingContext(callIn).items, callIn.k)

(***************************************************************************)
(* Bill split (calculateBillSplit).  Participants are 1..n in the order of *)
(* bill.participants.  Amounts are integer minor units; the grand totals   *)
(* are held in hundredths of a minor unit, because the bill's grand total  *)
(* adds a percentage adjustment unrounded.  All items are on one receipt;  *)
(* `extra` is that receipt's tax when the bill uses receipt extras, and    *)
(* the bill's only adjustment otherwise.                                   *)
(***************************************************************************)
Assignee(p, shareCount) == [participantId |-> p, shareCount |-> shareCount]

BillItems ==
    { [lineTotalMinor |-> 105, assignees |-> <<>>],
      [lineTotalMinor |-> 100, assignees |-> <<Assignee(2, 1)>>],
      [lineTotalMinor |-> 105, assignees |-> <<Assignee(3, 1)>>],
      [lineTotalMinor |-> 105, assignees |-> <<Assignee(1, 1), Assignee(2, 2)>>] }

BillExtras ==
    [type : {"tax", "discount"}, mode : {"percentage", "fixed"}, value : {0, 10},
     isInclusive : BOOLEAN]

Bills ==
    [n : 1..MaxParticipants, items : BoundedSeq(BillItems, MaxItems),
     useReceiptExtras : BOOLEAN, extra : BillExtras]

RECURSIVE SumSeq(_)
SumSeq(s) == IF s = <<>> THEN 0 ELSE Head(s) + SumSeq(Tail(s))

\* Math.round(num / den) for den > 0
Round(num, den) == (2 * num + den) \div (2 * den)

\* the while loop hands out the remainder one unit at a time from index 0,
\* round and round: entry i gets remainder div length, and one more when it
\* is among the first remainder mod length
SplitCents(total, weights) ==
    LET len       == Len(weights)
        weightSum == SumSeq(weights)
        base      == [i \in 1..len |-> (total * weights[i]) \div weightSum]
        remainder == total - SumSeq(base)
    IN  IF weightSum <= 0 THEN [i \in 1..len |-> 0]
        ELSE IF remainder <= 0 THEN base
        ELSE [i \in 1..len |->
                base[i] + (remainder \div len) + (IF i <= remainder % len THEN 1 ELSE 0)]

\* no assignees = split among everyone equally
Assignments(bill, item) ==
    IF item.assignees = <<>> THEN [p \in 1..bill.n |-> Assignee(p, 1)]
    ELSE item.assignees

\* what one item adds to summary.itemsTotal of participant p
ItemShare(bill, item, p) ==
    LET a      == Assignments(bill, item)
        splits == SplitCents(item.lineTotalMinor, [i \in 1..Len(a) |-> a[i].shareCount])
    IN  SumSeq([i \in 1..Len(a) |-> IF a[i].participantId = p THEN splits[i] ELSE 0])

ItemsTotals(bill) ==
    [p \in 1..bill.n |->
        SumSeq([k \in 1..Len(bill.items) |-> ItemShare(bill, bill.items[k], p)])]

CalculateSubtotal(bill) ==
    SumSeq([k \in 1..Len(bill.items) |-> bill.items[k].lineTotalMinor])

\* Math.round(subtotal * (value / 100)) or Math.round(value)
RoundedAmount(subtotal, extra) ==
    IF extra.mode = "percentage" THEN Round(subtotal * extra.value, 100) ELSE extra.value

CalculateReceiptExtrasTotal(bill) ==
    IF bill.extra.isInclusive THEN 0 ELSE RoundedAmount(CalculateSubtotal(bill), bill.extra)

\* the weights of the split of a receipt's extras: what each participant
\* was allocated of the receipt's items
ReceiptWeights(bill) == ItemsTotals(bill)

\* Step 3
AdjustmentsShares(bill) ==
    LET totals   == ItemsTotals(bill)
        subtotal == SumSeq(totals)
        nothing  == [p \in 1..bill.n |-> 0]
    IN  IF bill.useReceiptExtras
        THEN LET receiptSubtotal == CalculateSubtotal(bill)
                 receiptExtras   == CalculateReceiptExtrasTotal(bill)
             IN  IF receiptExtras = 0 THEN nothing
                 ELSE IF receiptSubtotal <= 0
                 THEN SplitCents(receiptExtras, [p \in 1..bill.n |-> 1])
                 ELSE SplitCents(receiptExtras, ReceiptWeights(bill))
        ELSE IF subtotal > 0 /\ ~bill.extra.isInclusive /\ bill.extra.value # 0
        THEN LET splits     == SplitCents(RoundedAmount(subtotal, bill.extra), totals)
                 multiplier == IF bill.extra.type = "discount" THEN -1 ELSE 1
             IN  [p \in 1..bill.n |-> splits[p] * multiplier]
        ELSE nothing

\* calculateGrandTotal(bill), in hundredths of a minor unit:
\* calculateAdjustmentsTotal adds subtotal * (value / 100) as it is
CalculateGrandTotal(bill) ==
    IF bill.useReceiptExtras
    THEN 100 * (CalculateSubtotal(bill) + CalculateReceiptExtrasTotal(bill))
    ELSE LET subtotal == CalculateSubtotal(bill)
             amount   == IF bill.extra.mode = "percentage"
                         THEN subtotal * bill.extra.value ELSE 100 * bill.extra.value
         IN  100 * subtotal
             + (IF bill.extra.isInclusive THEN 0
                ELSE IF bill.extra.type = "discount" THEN 0 - amount ELSE amount)

\* Steps 1-5; grandTotal in hundredths of a minor unit
CalculateBillSplit(bill) ==
    LET totals     == ItemsTotals(bill)
        shares     == AdjustmentsShares(bill)
        calculated == SumSeq(totals) + SumSeq(shares)
        remainder  == CalculateGrandTotal(bill) - 100 * calculated
    IN  [p \in 1..bill.n |->
            [itemsTotal |-> totals[p], adjustmentsShare |-> shares[p],
             grandTotal |-> 100 * (totals[p] + shares[p])
                            + (IF p = 1 /\ Abs(remainder) >= 100 THEN remainder ELSE 0)]]

InitBill ==
    /\ callFn = "none" /\ callIn \in Bills /\ callOut = NoItem
    /\ ParseIdle /\ OcrIdle /\ PipeIdle /\ ScannerIdle /\ UploadIdle

CallCalculateBillSplit ==
    /\ callFn = "none"
    /\ callFn' = "calculateBillSplit"
    /\ callOut' = CalculateBillSplit(callIn)
    /\ UNCHANGED callIn
    /\ UNCHANGED notCallVars

\* getFairShareCentsByReceipt's copy of splitCents, on the same extras and
\* weights
CallSplitCents ==
    /\ callFn = "none"
    /\ callFn' = "splitCents"
    /\ callOut' = SplitCents(CalculateReceiptExtrasTotal(callIn), ReceiptWeights(callIn))
    /\ UNCHANGED callIn
    /\ UNCHANGED notCallVars

NextBill == CallCalculateBillSplit \/ CallSplitCents

SpecBill == InitBill /\ [][NextBill]_vars

(***************************************************************************)
(* Properties of the bill split                                            *)
(***************************************************************************)
\* every assignee of every item is a participant of the bill
AssignedToParticipants(bill) ==
    \A k \in 1..Len(bill.items) : \A i \in 1..Len(bill.items[k].assignees) :
        bill.items[k].assignees[i].participantId \in 1..bill.n

\* C29: with at least one participant and items assigned to participants
\* only, the grandTotal values sum exactly to the bill's grand total.
C29_SharesSumToGrandTotal ==
    (callFn = "calculateBillSplit" /\ AssignedToParticipants(callIn)) =>
        SumSeq([p \in 1..callIn.n |-> callOut[p].grandTotal]) = CalculateGrandTotal(callIn)

\* C30: splitCents gives nothing to an entry of weight 0, and a participant
\* without items on the receipt is charged nothing of the receipt's extras
\* when they are split by item totals.
C30_ZeroWeightGetsNothing ==
    /\ callFn = "splitCents" =>
          \A p \in 1..callIn.n : ReceiptWeights(callIn)[p] = 0 => callOut[p] <= 0
    /\ (callFn = "calculateBillSplit" /\ callIn.useReceiptExtras
            /\ CalculateSubtotal(callIn) > 0) =>
          \A p \in 1..callIn.n :
              callOut[p].itemsTotal = 0 => callOut[p].adjustmentsShare = 0

====
